---------------------------- MODULE Spec2Model ----------------------------
(***************************************************************************)
(* A model of SSHClientWithReturnCode (src/socket/ssh/ssh_client.py):      *)
(*   - the memoized `sftp` property, accessed by several threads;          *)
(*   - `run`: one command channel, drained through a selector;             *)
(*   - `put` / `get`: file transfer with the sudo fallback.                *)
(* The paramiko channel, the SFTP server and the remote shell are the      *)
(* environment; they are modelled by what the client can observe of them.  *)
(***************************************************************************)
EXTENDS Integers, Sequences, FiniteSets, TLC

(***************************************************************************)
(* Bounds of the model.                                                    *)
(***************************************************************************)
NThreads == 3       \* threads that read the `sftp` property
MaxOut == 2         \* bytes a command writes to stdout, at most
MaxErr == 2         \* bytes a command writes to stderr, at most

Threads == 1..NThreads
Runners == {1, 2}               \* callers of `run` (one channel each)
Byte == {65, 255}               \* an ASCII byte and a byte invalid in UTF-8
ExitCodes == {0, 2}             \* `true`-like and `ls not_exist_file`-like

SeqsUpTo(S, n) == UNION {[1..k -> S] : k \in 0..n}

Front(s) == SubSeq(s, 1, Len(s) - 1)
Last(s) == s[Len(s)]

VARIABLES
    \* ---- the session ----
    sftp,            \* self._sftp: 0 is None, n > 0 is the n-th handle opened
    nOpened,         \* number of client.open_sftp() calls made so far
    sess,            \* the session object: its construction, its fields, its end
    \* ---- threads reading the `sftp` property ----
    tpc,             \* thread -> position in the property getter
    thandle,         \* thread -> handle returned by its own open_sftp() (0: none)
    tgot,            \* thread -> handle the getter returned (0: not returned)
    \* ---- run ----
    active,          \* the runners that may call `run`
    bounded,         \* TRUE: select(self.cmd_timeout); FALSE: select() without budget
    rs,              \* runner -> [pc, err, ret]
    ch,              \* runner -> its paramiko channel
    rem,             \* runner -> the remote process behind its channel
    registered,      \* channels registered with self.sel
    stdout_chunks,   \* self.stdout_chunks
    stderr_chunks,   \* self.stderr_chunks
    \* ---- put / get ----
    rfs,             \* the remote file system
    lfs,             \* the local file system
    sudoOk,          \* the remote host grants password-less sudo
    prog,            \* the calls the caller's program still makes
    ctx,             \* caller -> the put / get call it is in
    hist             \* the calls that ended before the current one

sessVars == <<sftp, nOpened, sess>>
thrVars == <<tpc, thandle, tgot>>
runVars == <<active, bounded, rs, ch, rem, registered, stdout_chunks, stderr_chunks>>
xferVars == <<rfs, lfs, sudoOk, prog, ctx, hist>>
vars == <<sessVars, thrVars, runVars, xferVars>>

(***************************************************************************)
(* The `sftp` property, lines 215-229.  open_sftp() is a network round     *)
(* trip, so another thread can run between the test of self._sftp, the     *)
(* call, the assignment and the final read.                                *)
(***************************************************************************)
\* the mutant of SftpIsNone: the handle is not memoized
SftpIsNoneAlways == TRUE
SftpIsNone == sftp = 0

\* the duration argument and self.duration: None, or a number of seconds
NoDuration == [given |-> FALSE, val |-> 0]
Dur(v) == [given |-> TRUE, val |-> v]
\* `if self.duration:`
Truthy(d) == d.given /\ d.val # 0

\* a session after __init__ (lines 86-118) has returned
OpenSession(d) ==
    [pc |-> "ready", arg_duration |-> d, duration |-> d, dialed |-> TRUE,
     conn |-> "open", sel |-> "open", sftp_closed |-> {}, exc |-> "none",
     scoped |-> FALSE]

\* a session whose constructor has just been called with duration = d,
\* inside a `with` statement (scoped) or not
NewSession(d, scoped) ==
    [pc |-> "init", arg_duration |-> d, duration |-> NoDuration, dialed |-> FALSE,
     conn |-> "none", sel |-> "none", sftp_closed |-> {}, exc |-> "none",
     scoped |-> scoped]

InitSession ==
    /\ sftp = 0
    /\ nOpened = 0
    /\ sess = OpenSession(NoDuration)

InitThreads ==
    /\ tpc = [t \in Threads |-> "idle"]
    /\ thandle = [t \in Threads |-> 0]
    /\ tgot = [t \in Threads |-> 0]

\* `if self._sftp is None:`
SftpTest(t) ==
    /\ tpc[t] = "idle"
    /\ tpc' = [tpc EXCEPT ![t] = IF SftpIsNone THEN "open" ELSE "ret"]
    /\ UNCHANGED <<sftp, nOpened, sess, thandle, tgot, runVars, xferVars>>

\* `self.client.open_sftp()`: a new handle every time it is called
SftpOpen(t) ==
    /\ tpc[t] = "open"
    /\ nOpened' = nOpened + 1
    /\ thandle' = [thandle EXCEPT ![t] = nOpened + 1]
    /\ tpc' = [tpc EXCEPT ![t] = "assign"]
    /\ UNCHANGED <<sftp, sess, tgot, runVars, xferVars>>

\* `self._sftp = ...`
SftpAssign(t) ==
    /\ tpc[t] = "assign"
    /\ sftp' = thandle[t]
    /\ tpc' = [tpc EXCEPT ![t] = "ret"]
    /\ UNCHANGED <<nOpened, sess, thandle, tgot, runVars, xferVars>>

\* `return self._sftp`
SftpReturn(t) ==
    /\ tpc[t] = "ret"
    /\ tgot' = [tgot EXCEPT ![t] = sftp]
    /\ tpc' = [tpc EXCEPT ![t] = "done"]
    /\ UNCHANGED <<sftp, nOpened, sess, thandle, runVars, xferVars>>

(***************************************************************************)
(* The paramiko channel as `run` sees it.                                  *)
(***************************************************************************)
NoChannel ==
    [open |-> FALSE, in_buffer |-> <<>>, in_stderr_buffer |-> <<>>,
     eof_received |-> FALSE, closed |-> FALSE, status_event |-> FALSE,
     exit_status |-> -1, write_shut |-> FALSE, read_shut |-> FALSE,
     close_called |-> FALSE]

NoRemote ==
    [outAll |-> <<>>, errAll |-> <<>>, code |-> 0, outSent |-> 0, errSent |-> 0,
     posted |-> FALSE, eof |-> FALSE, closed |-> FALSE]

NoRet == [set |-> FALSE, code |-> -1, out |-> <<>>, err |-> <<>>]

\* a command text is its words; "any" is a program that may print anything
\* and exit with any code, "raw" prints any bytes (whole and broken UTF-8
\* sequences) on stdout, at most one broken byte on stderr, and exits 0,
\* "echo" prints one byte on each stream and exits 0, "one" prints one byte
\* on stdout only and exits 0,
\* "quiet" prints nothing and exits 0 at once, "slow" does the same after a
\* time longer than every duration cap
AnyCommand == <<"any">>
HasWord(text, w) == \E i \in DOMAIN text : text[i] = w

\* kwargs: `environment` is absent, None, or a mapping of names to values
NoEnv == [kind |-> "absent", map |-> <<>>]
NoneEnv == [kind |-> "none", map |-> <<>>]
Env(m) == [kind |-> "mapping", map |-> m]
DEFAULT_LANG == "en_US.UTF-8"

\* what a runner is about to call run with, and what the call has done so far
\* env is the `environment` argument as it was when run was called;
\* caller_env is the caller's mapping object, which run gets by reference
NewRun(cmd, env) ==
    [pc |-> "idle", err |-> "none", ret |-> NoRet, cmd |-> cmd, env |-> env,
     caller_env |-> env,
     submitted |-> <<>>, envsent |-> NoEnv, warned |-> 0, channels |-> 0]

\* Channel.recv_ready / recv_stderr_ready / exit_status_ready
RecvReady(c) == Len(ch[c].in_buffer) > 0
RecvStderrReady(c) == Len(ch[c].in_stderr_buffer) > 0
ExitStatusReady(c) == ch[c].closed \/ ch[c].status_event

\* the channel's pipe is readable: data buffered, or EOF / close received
FdReady(c) == RecvReady(c) \/ RecvStderrReady(c) \/ ch[c].eof_received \/ ch[c].closed

\* bytes.decode('utf-8', errors): a byte below 128 is one character, a lead
\* byte 0xC2..0xDF followed by a continuation byte 0x80..0xBF is one character,
\* and any other byte of the model is an invalid sequence of length one,
\* which 'ignore' drops and 'replace' turns into U+FFFD.  (Longer sequences
\* are not modelled: no command of the model prints their lead bytes.)
REPLACEMENT == 65533
RECURSIVE DecodeWith(_, _)
DecodeWith(errors, bs) ==
    IF bs = <<>> THEN <<>>
    ELSE LET b == Head(bs)
         IN  IF b < 128 THEN <<b>> \o DecodeWith(errors, Tail(bs))
             ELSE IF b \in 194..223 /\ Len(bs) >= 2 /\ bs[2] \in 128..191
                  THEN <<(b - 192) * 64 + (bs[2] - 128)>>
                       \o DecodeWith(errors, Tail(Tail(bs)))
             ELSE (IF errors = "replace" THEN <<REPLACEMENT>> ELSE <<>>)
                  \o DecodeWith(errors, Tail(bs))

\* the bytes hold a sequence that is not valid UTF-8 ('strict' raises on it)
Malformed(bs) == \E i \in DOMAIN DecodeWith("replace", bs) :
                    DecodeWith("replace", bs)[i] = REPLACEMENT

\* lines 194-195: the error handler run passes to decode
ERRORS == "ignore"

\* the mutant of Decode: the handler is 'replace'
DecodeReplacing(bs) == DecodeWith("replace", bs)
Decode(bs) == DecodeWith(ERRORS, bs)

InitRun ==
    /\ bounded = TRUE
    /\ rs = [r \in Runners |-> NewRun(AnyCommand, NoEnv)]
    /\ ch = [r \in Runners |-> NoChannel]
    /\ rem = [r \in Runners |-> NoRemote]
    /\ registered = {}
    /\ stdout_chunks = <<>>
    /\ stderr_chunks = <<>>


(***************************************************************************)
(* The remote side of a channel: the process writes outAll / errAll and    *)
(* exits with `code`.  The server delivers the output in chunks of any     *)
(* size, the exit status at any moment (sshd sends it when the child is    *)
(* collected, possibly while output is still in its pipe), then EOF once   *)
(* all output is delivered, and the close last.                            *)
(***************************************************************************)
Delivering(c) == ch[c].open /\ ~ch[c].closed /\ ~rem[c].closed

FeedOut(c) ==
    /\ Delivering(c) /\ ~rem[c].eof
    /\ \E k \in 1..MaxOut :
        /\ rem[c].outSent + k <= Len(rem[c].outAll)
        /\ ch' = [ch EXCEPT ![c].in_buffer =
                    @ \o SubSeq(rem[c].outAll, rem[c].outSent + 1, rem[c].outSent + k)]
        /\ rem' = [rem EXCEPT ![c].outSent = @ + k]
    /\ UNCHANGED <<sessVars, thrVars, xferVars, active, bounded, rs, registered,
                   stdout_chunks, stderr_chunks>>

FeedErr(c) ==
    /\ Delivering(c) /\ ~rem[c].eof
    /\ \E k \in 1..MaxErr :
        /\ rem[c].errSent + k <= Len(rem[c].errAll)
        /\ ch' = [ch EXCEPT ![c].in_stderr_buffer =
                    @ \o SubSeq(rem[c].errAll, rem[c].errSent + 1, rem[c].errSent + k)]
        /\ rem' = [rem EXCEPT ![c].errSent = @ + k]
    /\ UNCHANGED <<sessVars, thrVars, xferVars, active, bounded, rs, registered,
                   stdout_chunks, stderr_chunks>>

\* the "exit-status" channel request: Channel sets exit_status and status_event
PostStatus(c) ==
    /\ Delivering(c) /\ ~rem[c].posted
    /\ ch' = [ch EXCEPT ![c].exit_status = rem[c].code, ![c].status_event = TRUE]
    /\ rem' = [rem EXCEPT ![c].posted = TRUE]
    /\ UNCHANGED <<sessVars, thrVars, xferVars, active, bounded, rs, registered,
                   stdout_chunks, stderr_chunks>>

\* SSH_MSG_CHANNEL_EOF: sent after the last byte of output
RemoteEof(c) ==
    /\ Delivering(c) /\ ~rem[c].eof
    /\ rem[c].outSent = Len(rem[c].outAll)
    /\ rem[c].errSent = Len(rem[c].errAll)
    /\ ch' = [ch EXCEPT ![c].eof_received = TRUE]
    /\ rem' = [rem EXCEPT ![c].eof = TRUE]
    /\ UNCHANGED <<sessVars, thrVars, xferVars, active, bounded, rs, registered,
                   stdout_chunks, stderr_chunks>>

\* SSH_MSG_CHANNEL_CLOSE: Channel._set_closed sets closed and status_event
RemoteClose(c) ==
    /\ Delivering(c) /\ rem[c].eof /\ rem[c].posted
    /\ ch' = [ch EXCEPT ![c].closed = TRUE, ![c].status_event = TRUE]
    /\ rem' = [rem EXCEPT ![c].closed = TRUE]
    /\ UNCHANGED <<sessVars, thrVars, xferVars, active, bounded, rs, registered,
                   stdout_chunks, stderr_chunks>>

(***************************************************************************)
(* run, lines 137-206.                                                     *)
(***************************************************************************)
\* `while not channel.closed or channel.recv_ready() or channel.recv_stderr_ready()`
LoopCond(c) == ~ch[c].closed \/ RecvReady(c) \/ RecvStderrReady(c)

\* the mutant of BreakCond: the exit status is not asked for
BreakCondNoStatus(c) == ~RecvReady(c) /\ ~RecvStderrReady(c)

\* lines 184-188: the test that ends the loop from inside
BreakCond(c) == ExitStatusReady(c) /\ ~RecvReady(c) /\ ~RecvStderrReady(c)

\* the mutant of ReadErr: the callback never reads stderr
ReadErrNever(c) == <<>>

\* _read_buffer, lines 126-129: what one call takes from each stream
ReadOut(c) == IF RecvReady(c) THEN ch[c].in_buffer ELSE <<>>
ReadErr(c) == IF RecvStderrReady(c) THEN ch[c].in_stderr_buffer ELSE <<>>

Rest(buf, taken) == SubSeq(buf, Len(taken) + 1, Len(buf))

\* the registered channels select() reports, in the order their callbacks run
ReadyList ==
    LET ready == {c \in registered : FdReady(c)}
    IN  IF ready = {} THEN <<>>
        ELSE IF Cardinality(ready) = 1 THEN <<CHOOSE c \in ready : TRUE>>
        ELSE <<1, 2>>

\* all the bytes the callbacks of one select() append to self.stdout_chunks
ReadAllOut ==
    IF Len(ReadyList) = 0 THEN <<>>
    ELSE IF Len(ReadyList) = 1 THEN ReadOut(ReadyList[1])
    ELSE ReadOut(ReadyList[1]) \o ReadOut(ReadyList[2])

ReadAllErr ==
    IF Len(ReadyList) = 0 THEN <<>>
    ELSE IF Len(ReadyList) = 1 THEN ReadErr(ReadyList[1])
    ELSE ReadErr(ReadyList[1]) \o ReadErr(ReadyList[2])

InReadyList(c) == \E i \in 1..Len(ReadyList) : ReadyList[i] = c

\* f"{self.duration}": the text of a float
FloatText(v) == CASE v = 1 -> "1.0" [] v = 2 -> "2.0" [] OTHER -> "0.0"

\* lines 146-147: f'timeout {self.duration} {cmd}'
Wrap(d, cmd) == IF Truthy(d) THEN <<"timeout", FloatText(d.val)>> \o cmd ELSE cmd

\* lines 149-153: the environment handed to exec_command
WithLang(m) == [k \in DOMAIN m \cup {"LANG"} |-> IF k = "LANG" THEN DEFAULT_LANG ELSE m[k]]
MergeEnvAlways(env) == Env(WithLang(env.map))
MergeEnv(env) ==
    IF env.kind = "absent" THEN Env(WithLang(<<>>))
    ELSE IF "LANG" \notin DOMAIN env.map THEN Env(WithLang(env.map))
    ELSE env

\* lines 151-153: kwargs['environment'] is the object the caller passed, and
\* kwargs['environment']['LANG'] = DEFAULT_LANG assigns into that object
AssignedInto(env) == IF env.kind = "mapping" THEN MergeEnv(env) ELSE env

\* line 155: `'|' in cmd`
HasPipeNever(text) == FALSE
HasPipe(text) == HasWord(text, "|")

\* run is entered: lines 144-157 prepare the command text and the
\* environment; `'LANG' not in None` raises TypeError
RunCall(r) ==
    /\ r \in active
    /\ rs[r].pc = "idle"
    /\ LET text == Wrap(sess.duration, rs[r].cmd)
       IN  IF rs[r].env.kind = "none"
           THEN rs' = [rs EXCEPT ![r].pc = "raised", ![r].err = "TypeError",
                                 ![r].submitted = text]
           ELSE rs' = [rs EXCEPT ![r].pc = "exec",
                                 ![r].submitted = text,
                                 ![r].envsent = MergeEnv(rs[r].env),
                                 ![r].caller_env = AssignedInto(rs[r].env),
                                 ![r].warned = IF HasPipe(text) THEN 1 ELSE 0]
    /\ UNCHANGED <<sessVars, thrVars, xferVars, active, bounded, ch, rem, registered,
                   stdout_chunks, stderr_chunks>>

\* the remote shell: the stages of a pipeline, and what each can exit with.
\* timeout(1) caps only the stage it is written in front of and exits 124
\* when it had to kill it; a pipeline exits with the code of its last stage
\* and its stdout is that of its last stage
RECURSIVE LastStage(_)
LastStage(text) ==
    IF text = <<>> \/ Last(text) = "|" THEN <<>>
    ELSE LastStage(Front(text)) \o <<Last(text)>>

TIMEOUT_EXIT == 124
ProgCodes(w) == IF w = "any" THEN ExitCodes ELSE {0}
StageCodes(stage) ==
    IF stage = <<>> THEN {2}
    ELSE IF stage[1] = "timeout"
         THEN IF stage[3] = "slow" THEN {TIMEOUT_EXIT} ELSE ProgCodes(stage[3])
         ELSE ProgCodes(stage[1])
ExitCodesOf(text) == StageCodes(LastStage(text))
RawBytes == {65, 195, 169, 255}     \* "A", the two bytes of U+00E9, an invalid byte
OutputsOf(text, n) ==
    IF HasWord(text, "any") THEN SeqsUpTo(Byte, n)
    ELSE IF HasWord(text, "one") THEN {<<65>>}
    ELSE IF HasWord(text, "raw") THEN SeqsUpTo(RawBytes, n)
    ELSE IF HasWord(text, "echo") THEN {<<65>>}
    ELSE {<<>>}
ErrOutputsOf(text, n) ==
    IF HasWord(text, "one") THEN {<<>>}
    ELSE IF HasWord(text, "raw") THEN {<<>>, <<255>>}
    ELSE OutputsOf(text, n)

\* line 159: exec_command opens the channel and starts the remote process
ExecCommand(r) ==
    /\ rs[r].pc = "exec"
    /\ \E o \in OutputsOf(LastStage(rs[r].submitted), MaxOut),
          e \in ErrOutputsOf(rs[r].submitted, MaxErr),
          k \in ExitCodesOf(rs[r].submitted) :
        /\ ch' = [ch EXCEPT ![r] = [NoChannel EXCEPT !.open = TRUE]]
        /\ rem' = [rem EXCEPT ![r] = [NoRemote EXCEPT !.outAll = o, !.errAll = e, !.code = k]]
    /\ rs' = [rs EXCEPT ![r].pc = "stdin", ![r].channels = @ + 1]
    /\ UNCHANGED <<sessVars, thrVars, xferVars, active, bounded, registered,
                   stdout_chunks, stderr_chunks>>

\* line 159 raises (SSHException, socket error): no channel exists
ExecCommandFails(r) ==
    /\ rs[r].pc = "exec"
    /\ rs' = [rs EXCEPT ![r].pc = "raised", ![r].err = "connect"]
    /\ UNCHANGED <<sessVars, thrVars, xferVars, active, bounded, ch, rem, registered,
                   stdout_chunks, stderr_chunks>>

\* lines 161-165: stdin.close(); channel.shutdown_write()
ShutdownWrite(r) ==
    /\ rs[r].pc = "stdin"
    /\ ch' = [ch EXCEPT ![r].write_shut = TRUE]
    /\ rs' = [rs EXCEPT ![r].pc = "register"]
    /\ UNCHANGED <<sessVars, thrVars, xferVars, active, bounded, rem, registered,
                   stdout_chunks, stderr_chunks>>

\* line 166: self.sel.register(channel, EVENT_READ, self._read_buffer)
Register(r) ==
    /\ rs[r].pc = "register"
    /\ registered' = registered \cup {r}
    /\ rs' = [rs EXCEPT ![r].pc = "capture"]
    /\ UNCHANGED <<sessVars, thrVars, xferVars, active, bounded, ch, rem,
                   stdout_chunks, stderr_chunks>>

\* lines 161-172 are outside the try statement: an error raised there (the
\* transport failing under stdin.close / shutdown_write, register failing to
\* create the channel's pipe) leaves run at once, and no finally clause runs
RaiseBeforeTry(r) ==
    /\ rs[r].pc \in {"stdin", "register"}
    /\ rs' = [rs EXCEPT ![r].pc = "raised", ![r].err = "io"]
    /\ UNCHANGED <<sessVars, thrVars, xferVars, active, bounded, ch, rem, registered,
                   stdout_chunks, stderr_chunks>>

\* lines 169-172: capture the stdout bytes that are already buffered
Capture(r) ==
    /\ rs[r].pc = "capture"
    /\ IF Len(ch[r].in_buffer) > 0
       THEN /\ stdout_chunks' = stdout_chunks \o ch[r].in_buffer
            /\ ch' = [ch EXCEPT ![r].in_buffer = <<>>]
       ELSE UNCHANGED <<stdout_chunks, ch>>
    /\ rs' = [rs EXCEPT ![r].pc = "loop"]
    /\ UNCHANGED <<sessVars, thrVars, xferVars, active, bounded, rem, registered, stderr_chunks>>

\* line 176: the while test
LoopTest(r) ==
    /\ rs[r].pc = "loop"
    /\ rs' = [rs EXCEPT ![r].pc = IF LoopCond(r) THEN "select" ELSE "decode"]
    /\ UNCHANGED <<sessVars, thrVars, xferVars, active, bounded, ch, rem, registered,
                   stdout_chunks, stderr_chunks>>

\* the mutant of SelectReady: the callback puts what it reads in front of
\* the buffer
SelectReadyPrepends(r) ==
    /\ rs[r].pc = "select"
    /\ Len(ReadyList) > 0
    /\ stdout_chunks' = ReadAllOut \o stdout_chunks
    /\ stderr_chunks' = ReadAllErr \o stderr_chunks
    /\ ch' = [c \in Runners |->
                IF InReadyList(c)
                THEN [ch[c] EXCEPT !.in_buffer = Rest(@, ReadOut(c)),
                                   !.in_stderr_buffer = Rest(@, ReadErr(c))]
                ELSE ch[c]]
    /\ rs' = [rs EXCEPT ![r].pc = "check"]
    /\ UNCHANGED <<sessVars, thrVars, xferVars, active, bounded, rem, registered>>

\* lines 177-180: select returns the ready channels and their callbacks run
SelectReady(r) ==
    /\ rs[r].pc = "select"
    /\ Len(ReadyList) > 0
    /\ stdout_chunks' = stdout_chunks \o ReadAllOut
    /\ stderr_chunks' = stderr_chunks \o ReadAllErr
    /\ ch' = [c \in Runners |->
                IF InReadyList(c)
                THEN [ch[c] EXCEPT !.in_buffer = Rest(@, ReadOut(c)),
                                   !.in_stderr_buffer = Rest(@, ReadErr(c))]
                ELSE ch[c]]
    /\ rs' = [rs EXCEPT ![r].pc = "check"]
    /\ UNCHANGED <<sessVars, thrVars, xferVars, active, bounded, rem, registered>>

\* the mutant of SelectTimeout: the expiry is taken for a failure
SelectTimeoutAborts(r) ==
    /\ rs[r].pc = "select"
    /\ Len(ReadyList) = 0
    /\ bounded
    /\ rs' = [rs EXCEPT ![r].pc = "finally", ![r].err = "timeout"]
    /\ UNCHANGED <<sessVars, thrVars, xferVars, active, bounded, ch, rem, registered,
                   stdout_chunks, stderr_chunks>>

\* the runner of src/socket/ssh_client.py, whose line 128 is self.sel.select()
Legacy == ~bounded

\* the mutant of SelectTimeout: the wait of the legacy runner expires too
SelectTimeoutAlways(r) ==
    /\ rs[r].pc = "select"
    /\ Len(ReadyList) = 0
    /\ rs' = [rs EXCEPT ![r].pc = "check"]
    /\ UNCHANGED <<sessVars, thrVars, xferVars, active, bounded, ch, rem, registered,
                   stdout_chunks, stderr_chunks>>

\* line 177: nothing became ready within self.cmd_timeout, select returns []
SelectTimeout(r) ==
    /\ rs[r].pc = "select"
    /\ Len(ReadyList) = 0
    /\ bounded
    /\ rs' = [rs EXCEPT ![r].pc = "check"]
    /\ UNCHANGED <<sessVars, thrVars, xferVars, active, bounded, ch, rem, registered,
                   stdout_chunks, stderr_chunks>>

\* an error raised inside the try statement (select or a callback's recv)
RaiseInTry(r) ==
    /\ rs[r].pc = "select"
    /\ rs' = [rs EXCEPT ![r].pc = "finally", ![r].err = "io"]
    /\ UNCHANGED <<sessVars, thrVars, xferVars, active, bounded, ch, rem, registered,
                   stdout_chunks, stderr_chunks>>

\* lines 184-192: shutdown_read and break, or the next iteration
BreakTest(r) ==
    /\ rs[r].pc = "check"
    /\ IF BreakCond(r)
       THEN /\ ch' = [ch EXCEPT ![r].read_shut = TRUE]
            /\ rs' = [rs EXCEPT ![r].pc = "decode"]
       ELSE /\ rs' = [rs EXCEPT ![r].pc = "loop"]
            /\ UNCHANGED ch
    /\ UNCHANGED <<sessVars, thrVars, xferVars, active, bounded, rem, registered,
                   stdout_chunks, stderr_chunks>>

\* lines 194-199: decode the buffers; recv_exit_status() waits for status_event
DecodeAndStatus(r) ==
    /\ rs[r].pc = "decode"
    /\ IF ERRORS = "strict" /\ (Malformed(stdout_chunks) \/ Malformed(stderr_chunks))
       THEN rs' = [rs EXCEPT ![r].pc = "finally", ![r].err = "UnicodeDecodeError"]
       ELSE /\ ch[r].status_event
            /\ rs' = [rs EXCEPT ![r].pc = "finally",
                                ![r].ret = [set |-> TRUE, code |-> ch[r].exit_status,
                                            out |-> Decode(stdout_chunks),
                                            err |-> Decode(stderr_chunks)]]
    /\ UNCHANGED <<sessVars, thrVars, xferVars, active, bounded, ch, rem, registered,
                   stdout_chunks, stderr_chunks>>

\* the mutant of Finally: the two buffers are left as they are
FinallyKeepsChunks(r) ==
    /\ rs[r].pc = "finally"
    /\ registered' = registered \ {r}
    /\ ch' = [ch EXCEPT ![r].closed = TRUE, ![r].close_called = TRUE]
    /\ rs' = [rs EXCEPT ![r].pc = IF rs[r].err = "none" THEN "returned" ELSE "raised"]
    /\ UNCHANGED <<sessVars, thrVars, xferVars, active, bounded, rem,
                   stdout_chunks, stderr_chunks>>

\* lines 200-206: the finally clause
Finally(r) ==
    /\ rs[r].pc = "finally"
    /\ registered' = registered \ {r}
    /\ ch' = [ch EXCEPT ![r].closed = TRUE, ![r].close_called = TRUE]
    /\ stdout_chunks' = <<>>
    /\ stderr_chunks' = <<>>
    /\ rs' = [rs EXCEPT ![r].pc = IF rs[r].err = "none" THEN "returned" ELSE "raised"]
    /\ UNCHANGED <<sessVars, thrVars, xferVars, active, bounded, rem>>

RunStep(r) ==
    \/ RunCall(r)
    \/ ExecCommand(r)
    \/ ExecCommandFails(r)
    \/ ShutdownWrite(r)
    \/ Register(r)
    \/ RaiseBeforeTry(r)
    \/ Capture(r)
    \/ LoopTest(r)
    \/ SelectReady(r)
    \/ SelectTimeout(r)
    \/ RaiseInTry(r)
    \/ BreakTest(r)
    \/ DecodeAndStatus(r)
    \/ Finally(r)

RemoteStep(c) ==
    \/ FeedOut(c)
    \/ FeedErr(c)
    \/ PostStatus(c)
    \/ RemoteEof(c)
    \/ RemoteClose(c)

(***************************************************************************)
(* Paths (os.path on POSIX).  A path is [abs, parts]: "/root/f" is         *)
(* [abs |-> TRUE, parts |-> <<"root", "f">>], "" is [FALSE, <<>>] and "/"  *)
(* is [TRUE, <<>>].  A local argument may also be an open file object.     *)
(* A trailing separator is a last part "": "/home/g/" has the parts        *)
(* <<"home", "g", "">>.                                                    *)
(***************************************************************************)
Path(a, ps) == [abs |-> a, parts |-> ps, stream |-> FALSE]
StreamObject == [abs |-> FALSE, parts |-> <<>>, stream |-> TRUE]


IsEmptyStr(p) == ~p.abs /\ p.parts = <<>>                  \* `not path`
IsAbs(p) == p.abs                                          \* os.path.isabs
Dirname(p) == IF p.parts = <<>> THEN p ELSE Path(p.abs, Front(p.parts))
Basename(p) == IF p.parts = <<>> THEN <<>> ELSE <<Last(p.parts)>>
Join(p, name) == Path(p.abs, p.parts \o name)              \* os.path.join(p, relative)
Cwd == <<"home">>
HasTrailingSep(p) == p.parts # <<>> /\ Last(p.parts) = ""
RECURSIVE StripSep(_)
StripSep(p) ==                                             \* path.rstrip(os.sep)
    IF HasTrailingSep(p) THEN StripSep(Path(p.abs, Front(p.parts))) ELSE p
\* os.path.abspath: normpath(join(cwd, p)) for a relative p, which drops a
\* trailing separator; lines 247-248 and 362-363 leave an absolute p as it is
Abspath(p) == IF p.abs THEN p ELSE Path(TRUE, Cwd \o StripSep(p).parts)
IsRootDirNever(p) == FALSE
IsRootDir(p) == p.abs /\ p.parts = <<>>                    \* the path "/"
TmpDir == Path(TRUE, <<"tmp">>)

(***************************************************************************)
(* Permission bits.  A mode is the number stat.S_IMODE gives (12 bits).    *)
(***************************************************************************)
Oct(s, u, g, o) == s * 512 + u * 64 + g * 8 + o
HasBit(m, b) == (m \div b) % 2 = 1
ClearBit(m, b) == IF HasBit(m, b) THEN m - b ELSE m
SetUidBit == Oct(4, 0, 0, 0)
SetGidBit == Oct(2, 0, 0, 0)
StickyBit == Oct(1, 0, 0, 0)
GroupExecBit == Oct(0, 0, 1, 0)

\* f"{mode:o}": the octal digits of the mode, no leading zero
RECURSIVE OctDigits(_)
OctDigits(m) == IF m < 8 THEN <<m>> ELSE OctDigits(m \div 8) \o <<m % 8>>

\* stat(1) prints the mode with at least four octal digits ("0644")
StatDigits(m) ==
    LET d == OctDigits(m)
    IN  IF Len(d) >= 4 THEN d ELSE [i \in 1..(4 - Len(d)) |-> 0] \o d

\* int(text, 8), and what chmod(1) makes of an octal argument
RECURSIVE ParseOct(_)
ParseOct(d) == IF d = <<>> THEN 0 ELSE ParseOct(Front(d)) * 8 + Last(d)

\* chown(2) on Linux clears the set-user-ID bit of a regular file, and its
\* set-group-ID bit when the file is group-executable, also for root and
\* also when the owner does not change
ChownClearsBits(m) ==
    LET m1 == ClearBit(m, SetUidBit)
    IN  IF HasBit(m, GroupExecBit) THEN ClearBit(m1, SetGidBit) ELSE m1

(***************************************************************************)
(* A file system: a function from the parts of an absolute path to a node. *)
(* The remote one is accessed as the login user (SFTP, plain commands) or  *)
(* as root (sudo); the local one belongs to the caller.                    *)
(***************************************************************************)
DirNode(o, m) == [kind |-> "dir", owner |-> o, mode |-> m, content |-> 0]
FileNode(o, m, c) == [kind |-> "file", owner |-> o, mode |-> m, content |-> c]

FsPut(fs, p, n) == [q \in DOMAIN fs \cup {p} |-> IF q = p THEN n ELSE fs[q]]
FsDel(fs, p) == [q \in DOMAIN fs \ {p} |-> fs[q]]

\* the permission digit that applies to the login user (group is not modelled)
UserDigit(n) == IF n.owner = "user" THEN (n.mode \div 64) % 8 ELSE n.mode % 8
CanR(n) == HasBit(UserDigit(n), 4)
CanW(n) == HasBit(UserDigit(n), 2)
CanX(n) == HasBit(UserDigit(n), 1)

\* path resolution: "ok" or the errno of the first component that fails
RECURSIVE Lookup(_, _, _)
Lookup(fs, p, asRoot) ==
    IF p = <<>> THEN "ok"
    ELSE LET r == Lookup(fs, Front(p), asRoot)
         IN  IF r # "ok" THEN r
             ELSE IF fs[Front(p)].kind # "dir" THEN "ENOTDIR"
             ELSE IF ~asRoot /\ ~CanX(fs[Front(p)]) THEN "EACCES"
             ELSE IF p \notin DOMAIN fs THEN "ENOENT"
             ELSE "ok"

\* the exception paramiko raises for the status sftp-server answers
ExcOf(errno) ==
    CASE errno = "ok" -> "none"
      [] errno \in {"ENOENT", "ENOTDIR"} -> "FileNotFoundError"
      [] errno \in {"EACCES", "EPERM"} -> "PermissionError"
      [] OTHER -> "OSError"

\* a new remote file: mode 0666 less the server's umask 022
NewFileMode == Oct(0, 6, 4, 4)
Umask(m) == ClearBit(ClearBit(m % 512, Oct(0, 0, 2, 0)), Oct(0, 0, 0, 2))

Res(e, fs, v) == [exc |-> e, fs |-> fs, val |-> v]

\* SFTPClient.stat(path): val is the node
SftpStat(fs, p) ==
    LET l == Lookup(fs, p, FALSE)
    IN  IF l = "ok" THEN Res("none", fs, fs[p]) ELSE Res(ExcOf(l), fs, 0)

\* SFTPClient.put(local, path): open(path, "wb"), write, stat
SftpPut(fs, p, c) ==
    LET lp == IF p = <<>> THEN "EISDIR" ELSE Lookup(fs, Front(p), FALSE)
    IN  IF lp # "ok" THEN Res(ExcOf(lp), fs, 0)
        ELSE LET par == fs[Front(p)]
             IN  IF par.kind # "dir" THEN Res(ExcOf("ENOTDIR"), fs, 0)
                 ELSE IF ~CanX(par) THEN Res(ExcOf("EACCES"), fs, 0)
                 ELSE IF p \in DOMAIN fs
                      THEN IF fs[p].kind = "dir" THEN Res(ExcOf("EISDIR"), fs, 0)
                           ELSE IF ~CanW(fs[p]) THEN Res(ExcOf("EACCES"), fs, 0)
                           ELSE Res("none", FsPut(fs, p, [fs[p] EXCEPT !.content = c]), 0)
                      ELSE IF ~CanW(par) THEN Res(ExcOf("EACCES"), fs, 0)
                           ELSE Res("none", FsPut(fs, p, FileNode("user", NewFileMode, c)), 0)

\* the remote half of SFTPClient.get(path, local): open(path, "rb"), read; val is the content
SftpGet(fs, p) ==
    LET l == Lookup(fs, p, FALSE)
    IN  IF l # "ok" THEN Res(ExcOf(l), fs, 0)
        ELSE IF fs[p].kind = "dir" THEN Res(ExcOf("EISDIR"), fs, 0)
        ELSE IF ~CanR(fs[p]) THEN Res(ExcOf("EACCES"), fs, 0)
        ELSE Res("none", fs, fs[p].content)

\* SFTPClient.chmod(path, mode): only the owner may
SftpChmod(fs, p, m) ==
    LET l == Lookup(fs, p, FALSE)
    IN  IF l # "ok" THEN Res(ExcOf(l), fs, 0)
        ELSE IF fs[p].owner # "user" THEN Res(ExcOf("EPERM"), fs, 0)
        ELSE Res("none", FsPut(fs, p, [fs[p] EXCEPT !.mode = m]), 0)

\* SFTPClient.remove(path): unlink; a sticky directory protects others' files
SftpRemove(fs, p) ==
    LET l == Lookup(fs, p, FALSE)
    IN  IF l # "ok" THEN Res(ExcOf(l), fs, 0)
        ELSE IF p = <<>> \/ fs[p].kind = "dir" THEN Res(ExcOf("EISDIR"), fs, 0)
        ELSE LET par == fs[Front(p)]
             IN  IF ~CanW(par) THEN Res(ExcOf("EACCES"), fs, 0)
                 ELSE IF HasBit(par.mode, StickyBit) /\ fs[p].owner # "user"
                         /\ par.owner # "user"
                      THEN Res(ExcOf("EPERM"), fs, 0)
                 ELSE Res("none", FsDel(fs, p), 0)

(***************************************************************************)
(* Remote commands, as put and get issue them through self.run.  A command *)
(* is its literal template with the texts interpolated into it.  Here run  *)
(* is taken by its contract: the command executes once on the remote file  *)
(* system, and run returns its exit code and its stdout.  A host without   *)
(* password-less sudo makes every sudo command exit 1.                     *)
(***************************************************************************)
Cmd(t, a, b, m) == [tmpl |-> t, a |-> a, b |-> b, m |-> m]
NoPath == Path(FALSE, <<>>)

CmdTestD(p) == Cmd("sudo [ -d {a} ]", p, NoPath, <<>>)                   \* lines 280, 285
CmdTestF(p) == Cmd("sudo [ -f {a} ]", p, NoPath, <<>>)                   \* line 355
CmdMv(a, b) == Cmd("sudo mv {a} {b}", a, b, <<>>)                        \* line 310
CmdChmod(m, p) == Cmd("sudo chmod {m} {a}", p, NoPath, OctDigits(m))     \* line 322
CmdCp(p) == Cmd("sudo cp {a} /tmp", p, NoPath, <<>>)                     \* line 383
CmdWhoami == Cmd("whoami", NoPath, NoPath, <<>>)                         \* line 387
CmdChown(u, p) ==                                                        \* lines 393-395
    Cmd("sudo [ -f {a} ] && sudo chown {u}:{u} {a}", p, NoPath, u)
CmdStat(p) == Cmd("sudo stat {a}", p, NoPath, <<>>)                      \* line 410

Out(code, out, fs) == [code |-> code, out |-> out, fs |-> fs]

IsDirAsRoot(fs, p) == Lookup(fs, p, TRUE) = "ok" /\ fs[p].kind = "dir"
IsFileAsRoot(fs, p) == Lookup(fs, p, TRUE) = "ok" /\ fs[p].kind = "file"

\* mv(1) as root: into b when b is a directory, else onto b
ShellMv(fs, a, b) ==
    IF a = <<>> \/ Lookup(fs, a, TRUE) # "ok" THEN Out(1, <<>>, fs)
    ELSE LET t == IF IsDirAsRoot(fs, b) THEN b \o <<Last(a)>> ELSE b
         IN  IF t = a \/ t = <<>> THEN Out(1, <<>>, fs)
             ELSE IF ~IsDirAsRoot(fs, Front(t)) THEN Out(1, <<>>, fs)
             ELSE IF t \in DOMAIN fs /\ fs[t].kind # fs[a].kind THEN Out(1, <<>>, fs)
             ELSE Out(0, <<>>, FsPut(FsDel(fs, a), t, fs[a]))

\* cp(1) as root of one file into /tmp: an existing file there is rewritten
\* in place, a new one belongs to root
ShellCpToTmp(fs, a) ==
    IF ~IsFileAsRoot(fs, a) \/ ~IsDirAsRoot(fs, TmpDir.parts) THEN Out(1, <<>>, fs)
    ELSE LET t == TmpDir.parts \o <<Last(a)>>
         IN  IF t = a THEN Out(1, <<>>, fs)
             ELSE IF t \in DOMAIN fs
                  THEN IF fs[t].kind = "dir" THEN Out(1, <<>>, fs)
                       ELSE Out(0, <<>>, FsPut(fs, t, [fs[t] EXCEPT !.content = fs[a].content]))
                  ELSE Out(0, <<>>, FsPut(fs, t, FileNode("root", Umask(fs[a].mode),
                                                        fs[a].content)))

\* stat(1) prints "Access: (0644/-rw-r--r--)  Uid: (    0/    root) ..."
StatText(n) == [access |-> StatDigits(n.mode), uid |-> n.owner]

\* what one command does on the remote host, and what run returns for it
RunRemote(fs, granted, cmd) ==
    IF cmd.tmpl = "whoami" THEN Out(0, "user", fs)
    ELSE IF ~granted THEN Out(1, <<>>, fs)
    ELSE CASE cmd.tmpl = "sudo [ -d {a} ]" ->
                Out(IF cmd.a.abs /\ IsDirAsRoot(fs, cmd.a.parts) THEN 0 ELSE 1, <<>>, fs)
           [] cmd.tmpl = "sudo [ -f {a} ]" ->
                Out(IF cmd.a.abs /\ IsFileAsRoot(fs, cmd.a.parts) THEN 0 ELSE 1, <<>>, fs)
           [] cmd.tmpl = "sudo mv {a} {b}" -> ShellMv(fs, cmd.a.parts, cmd.b.parts)
           [] cmd.tmpl = "sudo chmod {m} {a}" ->
                IF Lookup(fs, cmd.a.parts, TRUE) = "ok"
                THEN Out(0, <<>>, FsPut(fs, cmd.a.parts,
                                        [fs[cmd.a.parts] EXCEPT !.mode = ParseOct(cmd.m)]))
                ELSE Out(1, <<>>, fs)
           [] cmd.tmpl = "sudo cp {a} /tmp" -> ShellCpToTmp(fs, cmd.a.parts)
           [] cmd.tmpl = "sudo [ -f {a} ] && sudo chown {u}:{u} {a}" ->
                IF IsFileAsRoot(fs, cmd.a.parts)
                THEN Out(0, <<>>, FsPut(fs, cmd.a.parts,
                                        [fs[cmd.a.parts] EXCEPT
                                            !.owner = cmd.m,
                                            !.mode = ChownClearsBits(@)]))
                ELSE Out(1, <<>>, fs)
           [] cmd.tmpl = "sudo stat {a}" ->
                IF Lookup(fs, cmd.a.parts, TRUE) = "ok"
                THEN Out(0, StatText(fs[cmd.a.parts]), fs)
                ELSE Out(1, <<>>, fs)

IsElevated(op) == op \notin {"open_sftp", "sftp.stat", "sftp.put", "sftp.get",
                             "sftp.chmod", "sftp.remove", "whoami"}

(***************************************************************************)
(* put and get, lines 231-422.  Every remote primitive (an SFTP request,   *)
(* a command) is one step of the call.  ctx[c].log lists the remote        *)
(* operations the call has issued so far.                                  *)
(***************************************************************************)
Callers == {1}

IdleCtx ==
    [op |-> "none", pc |-> "idle", arg_local |-> NoPath, arg_remote |-> NoPath,
     local |-> NoPath, remote |-> NoPath, preserve |-> FALSE, sudo |-> FALSE,
     exc |-> "none", log |-> <<>>, mode |-> 0, username |-> "", sent |-> 0]

Logged(x, op, path) == [x EXCEPT !.log = Append(@, [op |-> op, path |-> path])]
Goto(x, pc) == [x EXCEPT !.pc = pc]
Raise(x, e) == [x EXCEPT !.pc = "failed", !.exc = e]
At(c, op, pc) == ctx[c].op = op /\ ctx[c].pc = pc
LocalExists(p) == Lookup(lfs, p, TRUE) = "ok"

\* tmp_remote, lines 304-305 and 392
StagePath(remote) == Join(TmpDir, Basename(remote))

\* the `sftp` property read by put (line 256) and get (line 342)
SftpProperty(c, next) ==
    /\ IF SftpIsNone
       THEN /\ sftp' = nOpened + 1
            /\ nOpened' = nOpened + 1
            /\ ctx' = [ctx EXCEPT ![c] = Goto(Logged(@, "open_sftp", <<>>), next)]
       ELSE /\ UNCHANGED <<sftp, nOpened>>
            /\ ctx' = [ctx EXCEPT ![c] = Goto(@, next)]
    /\ UNCHANGED <<sess, thrVars, runVars, rfs, lfs, sudoOk, prog, hist>>

\* a step that changes the call and nothing else
OnlyCtx(c, x) ==
    /\ ctx' = [ctx EXCEPT ![c] = x]
    /\ UNCHANGED <<sessVars, thrVars, runVars, rfs, lfs, sudoOk, prog, hist>>

\* a step that changes the call and the remote file system
CtxAndRemote(c, x, fs) ==
    /\ ctx' = [ctx EXCEPT ![c] = x]
    /\ rfs' = fs
    /\ UNCHANGED <<sessVars, thrVars, runVars, lfs, sudoOk, prog, hist>>

\* the remote operations a call has issued, and how many times each
Ops(x) == {x.log[i].op : i \in DOMAIN x.log}
Count(x, op) == Cardinality({i \in DOMAIN x.log : x.log[i].op = op})

\* self.run(cmd) inside put / get: one command channel, the command runs once
RunLogged(x, cmd) == Logged(x, cmd.tmpl, cmd.a.parts)

\* ---------------------------- put ----------------------------
\* the mutant of PutValidateLocal: the local argument is not validated
PutValidateLocalNever(c) ==
    /\ At(c, "put", "p_local")
    /\ OnlyCtx(c, Goto([ctx[c] EXCEPT !.local = Abspath(@)], "p_sftp"))

\* lines 245-254
PutValidateLocal(c) ==
    /\ At(c, "put", "p_local")
    /\ LET x == ctx[c]
           loc == Abspath(x.local)
       IN  OnlyCtx(c,
               IF x.local.stream THEN Raise(x, "ValueError")
               ELSE IF ~LocalExists(loc.parts) THEN Raise(x, "FileNotFoundError")
               ELSE IF lfs[loc.parts].kind # "file" THEN Raise(x, "ValueError")
               ELSE Goto([x EXCEPT !.local = loc], "p_sftp"))

\* line 256
PutSftp(c) ==
    /\ At(c, "put", "p_sftp")
    /\ SftpProperty(c, "p_remote")

\* lines 258-262
PutValidateRemote(c) ==
    /\ At(c, "put", "p_remote")
    /\ LET x == ctx[c]
       IN  OnlyCtx(c,
               IF IsEmptyStr(x.remote) THEN Raise(x, "ValueError")
               ELSE IF ~IsAbs(x.remote) THEN Raise(x, "ValueError")
               ELSE Goto(x, "p_probe"))

\* lines 264-271 and 278-279, 289-290: the direct probe of the destination
PutProbe(c) ==
    /\ At(c, "put", "p_probe")
    /\ LET x == Logged(ctx[c], "sftp.stat", ctx[c].remote.parts)
           r == SftpStat(rfs, x.remote.parts)
       IN  OnlyCtx(c,
               CASE r.exc = "none" ->
                      IF r.val.kind = "dir"
                      THEN Goto([x EXCEPT !.remote = Join(@, Basename(x.local))], "p_exists")
                      ELSE Goto(x, "p_exists")
                 [] r.exc = "FileNotFoundError" ->
                      IF IsRootDir(Dirname(x.remote))
                      THEN Raise(x, "FileNotFoundError")
                      ELSE Goto(x, "p_parent")
                 [] r.exc = "PermissionError" ->
                      IF x.sudo THEN Goto(x, "p_sudo_isdir") ELSE Raise(x, "PermissionError")
                 [] OTHER -> Raise(x, r.exc))

\* lines 276-277: the parent may exist; an error of this stat propagates
PutProbeParent(c) ==
    /\ At(c, "put", "p_parent")
    /\ LET d == Dirname(ctx[c].remote)
           x == Logged(ctx[c], "sftp.stat", d.parts)
           r == SftpStat(rfs, d.parts)
       IN  OnlyCtx(c, IF r.exc = "none" THEN Goto(x, "p_exists") ELSE Raise(x, r.exc))

\* lines 280-283
PutSudoIsDir(c) ==
    /\ At(c, "put", "p_sudo_isdir")
    /\ LET cmd == CmdTestD(ctx[c].remote)
           x == RunLogged(ctx[c], cmd)
           o == RunRemote(rfs, sudoOk, cmd)
       IN  CtxAndRemote(c,
               IF o.code = 0
               THEN Goto([x EXCEPT !.remote = Join(@, Basename(x.local))], "p_exists")
               ELSE Goto(x, "p_sudo_parent"),
               o.fs)

\* the mutant of PutSudoParent: the answer of the parent probe is not asserted
PutSudoParentUnchecked(c) ==
    /\ At(c, "put", "p_sudo_parent")
    /\ LET cmd == CmdTestD(Dirname(ctx[c].remote))
           x == RunLogged(ctx[c], cmd)
           o == RunRemote(rfs, sudoOk, cmd)
       IN  CtxAndRemote(c, Goto(x, "p_exists"), o.fs)

\* lines 284-288
PutSudoParent(c) ==
    /\ At(c, "put", "p_sudo_parent")
    /\ LET cmd == CmdTestD(Dirname(ctx[c].remote))
           x == RunLogged(ctx[c], cmd)
           o == RunRemote(rfs, sudoOk, cmd)
       IN  CtxAndRemote(c,
               IF o.code = 0 THEN Goto(x, "p_exists") ELSE Raise(x, "AssertionError"),
               o.fs)

\* lines 292-298: an existing target only logs a warning
PutExists(c) ==
    /\ At(c, "put", "p_exists")
    /\ LET x == Logged(ctx[c], "sftp.stat", ctx[c].remote.parts)
           r == SftpStat(rfs, x.remote.parts)
       IN  OnlyCtx(c,
               IF r.exc \in {"none", "FileNotFoundError", "PermissionError"}
               THEN Goto(x, "p_transfer")
               ELSE Raise(x, r.exc))

\* where put goes when the direct transfer is denied (line 303)
PutDeniedNext(x) == "p_stage"

\* lines 300-303: the direct transfer
PutTransfer(c) ==
    /\ At(c, "put", "p_transfer")
    /\ LET x0 == Logged(ctx[c], "sftp.put", ctx[c].remote.parts)
           x == [x0 EXCEPT !.sent = lfs[x0.local.parts].content]
           r == SftpPut(rfs, x.remote.parts, x.sent)
       IN  CtxAndRemote(c,
               CASE r.exc = "none" -> Goto(x, "p_mode")
                 [] r.exc = "PermissionError" -> Goto(x, PutDeniedNext(x))
                 [] OTHER -> Raise(x, r.exc),
               r.fs)

\* lines 304-307: the transfer to the staging location
PutStage(c) ==
    /\ At(c, "put", "p_stage")
    /\ LET t == StagePath(ctx[c].remote)
           x == Logged(ctx[c], "sftp.put", t.parts)
           r == SftpPut(rfs, t.parts, lfs[x.local.parts].content)
       IN  CtxAndRemote(c,
               IF r.exc = "none" THEN Goto(x, "p_move") ELSE Raise(x, r.exc),
               r.fs)

\* the mutant of PutMove: the exit code of the move is not looked at
PutMoveUnchecked(c) ==
    /\ At(c, "put", "p_move")
    /\ LET cmd == CmdMv(StagePath(ctx[c].remote), ctx[c].remote)
           x == RunLogged(ctx[c], cmd)
           o == RunRemote(rfs, sudoOk, cmd)
       IN  CtxAndRemote(c, Goto(x, "p_mode"), o.fs)

\* the mutant of PutMove: a move that fails is tried a second time
PutMoveRetries(c) ==
    /\ At(c, "put", "p_move")
    /\ LET cmd == CmdMv(StagePath(ctx[c].remote), ctx[c].remote)
           x == RunLogged(ctx[c], cmd)
           o == RunRemote(rfs, sudoOk, cmd)
       IN  CtxAndRemote(c,
               IF o.code = 0 THEN Goto(x, "p_mode")
               ELSE IF Count(ctx[c], cmd.tmpl) = 0 THEN x
               ELSE Raise(x, "RuntimeError"),
               o.fs)

\* lines 309-312
PutMove(c) ==
    /\ At(c, "put", "p_move")
    /\ LET cmd == CmdMv(StagePath(ctx[c].remote), ctx[c].remote)
           x == RunLogged(ctx[c], cmd)
           o == RunRemote(rfs, sudoOk, cmd)
       IN  CtxAndRemote(c,
               IF o.code # 0 THEN Raise(x, "RuntimeError") ELSE Goto(x, "p_mode"),
               o.fs)

\* the mutant of PutMode: the mode is set whether or not preserve_mode is given
PutModeAlways(c) ==
    /\ At(c, "put", "p_mode")
    /\ LET m == lfs[ctx[c].local.parts].mode
           x == Logged([ctx[c] EXCEPT !.mode = m], "sftp.chmod", ctx[c].remote.parts)
           r == SftpChmod(rfs, x.remote.parts, m)
       IN  CtxAndRemote(c, IF r.exc = "none" THEN Goto(x, "done") ELSE Raise(x, r.exc), r.fs)

\* lines 315-321: the direct mode change
PutMode(c) ==
    /\ At(c, "put", "p_mode")
    /\ IF ~ctx[c].preserve
       THEN OnlyCtx(c, Goto(ctx[c], "done"))
       ELSE LET m == lfs[ctx[c].local.parts].mode
                x == Logged([ctx[c] EXCEPT !.mode = m], "sftp.chmod", ctx[c].remote.parts)
                r == SftpChmod(rfs, x.remote.parts, m)
            IN  CtxAndRemote(c,
                    CASE r.exc = "none" -> Goto(x, "done")
                      [] r.exc = "PermissionError" -> Goto(x, "p_mode_sudo")
                      [] OTHER -> Raise(x, r.exc),
                    r.fs)

\* lines 322-326
PutModeSudo(c) ==
    /\ At(c, "put", "p_mode_sudo")
    /\ LET cmd == CmdChmod(ctx[c].mode, ctx[c].remote)
           x == RunLogged(ctx[c], cmd)
           o == RunRemote(rfs, sudoOk, cmd)
       IN  CtxAndRemote(c,
               IF o.code # 0 THEN Raise(x, "RuntimeError") ELSE Goto(x, "done"),
               o.fs)

PutStep(c) ==
    \/ PutValidateLocal(c)
    \/ PutSftp(c)
    \/ PutValidateRemote(c)
    \/ PutProbe(c)
    \/ PutProbeParent(c)
    \/ PutSudoIsDir(c)
    \/ PutSudoParent(c)
    \/ PutExists(c)
    \/ PutTransfer(c)
    \/ PutStage(c)
    \/ PutMove(c)
    \/ PutMode(c)
    \/ PutModeSudo(c)

\* ---------------------------- get ----------------------------
\* a step that changes the call and both file systems
CtxAndFiles(c, x, rf, lf) ==
    /\ ctx' = [ctx EXCEPT ![c] = x]
    /\ rfs' = rf
    /\ lfs' = lf
    /\ UNCHANGED <<sessVars, thrVars, runVars, sudoOk, prog, hist>>

\* a new local file: mode 0666 less the caller's umask 022
NewLocalMode == Oct(0, 6, 4, 4)

\* SFTPClient.get opens the local file "wb" before it asks for the remote
\* one; a path that ends in a separator cannot be opened (IsADirectoryError)
LocalOpenWb(lf, p) ==
    IF p \in DOMAIN lf
    THEN FsPut(lf, p, [lf[p] EXCEPT !.content = 0])
    ELSE FsPut(lf, p, FileNode("me", NewLocalMode, 0))

LocalWrite(lf, p, c) == FsPut(lf, p, [lf[p] EXCEPT !.content = c])

\* re.search(r"Access: \((\d+).*\)  Uid", out).group(1): the digits of the
\* Access line, or <<>> for no match
MatchMode(out) == out.access

\* line 342
GetSftp(c) ==
    /\ At(c, "get", "g_sftp")
    /\ SftpProperty(c, "g_remote")

\* lines 344-347
GetValidateRemote(c) ==
    /\ At(c, "get", "g_remote")
    /\ LET x == ctx[c]
       IN  OnlyCtx(c,
               IF IsEmptyStr(x.remote) THEN Raise(x, "ValueError")
               ELSE IF ~IsAbs(x.remote) THEN Raise(x, "ValueError")
               ELSE Goto(x, "g_probe"))

\* the mutant of GetProbe: the type of the source is not looked at
GetProbeAnyType(c) ==
    /\ At(c, "get", "g_probe")
    /\ LET x == Logged(ctx[c], "sftp.stat", ctx[c].remote.parts)
           r == SftpStat(rfs, x.remote.parts)
       IN  OnlyCtx(c,
               CASE r.exc = "none" -> Goto(x, "g_local")
                 [] r.exc = "PermissionError" ->
                      IF x.sudo THEN Goto(x, "g_sudo_isfile") ELSE Raise(x, "PermissionError")
                 [] OTHER -> Raise(x, r.exc))

\* lines 348-354, 357-358: the direct probe of the source
GetProbe(c) ==
    /\ At(c, "get", "g_probe")
    /\ LET x == Logged(ctx[c], "sftp.stat", ctx[c].remote.parts)
           r == SftpStat(rfs, x.remote.parts)
       IN  OnlyCtx(c,
               CASE r.exc = "none" ->
                      IF r.val.kind = "dir" THEN Raise(x, "ValueError") ELSE Goto(x, "g_local")
                 [] r.exc = "PermissionError" ->
                      IF x.sudo THEN Goto(x, "g_sudo_isfile") ELSE Raise(x, "PermissionError")
                 [] OTHER -> Raise(x, r.exc))

\* lines 355-356
GetSudoIsFile(c) ==
    /\ At(c, "get", "g_sudo_isfile")
    /\ LET cmd == CmdTestF(ctx[c].remote)
           x == RunLogged(ctx[c], cmd)
           o == RunRemote(rfs, sudoOk, cmd)
       IN  CtxAndRemote(c,
               IF o.code = 0 THEN Goto(x, "g_local") ELSE Raise(x, "AssertionError"),
               o.fs)

\* the errno of os.stat(p) on the caller's machine: a path with a trailing
\* separator resolves only to a directory
OsStat(lf, p) ==
    LET l == Lookup(lf, StripSep(p).parts, TRUE)
    IN  IF l = "ok" /\ HasTrailingSep(p) /\ lf[StripSep(p).parts].kind # "dir"
        THEN "ENOTDIR"
        ELSE l

\* the mutant of GetValidateLocal: the parent of a missing path is not looked at
GetValidateLocalNoParent(c) ==
    /\ At(c, "get", "g_local")
    /\ LET x == ctx[c]
           loc == Abspath(x.local)
           l == OsStat(lfs, loc)
       IN  OnlyCtx(c,
               IF IsEmptyStr(x.local) THEN Raise(x, "ValueError")
               ELSE IF l = "ok"
                    THEN IF lfs[StripSep(loc).parts].kind = "dir" THEN Raise(x, "ValueError")
                         ELSE Goto([x EXCEPT !.local = loc], "g_transfer")
               ELSE IF l = "ENOENT" THEN Goto([x EXCEPT !.local = loc], "g_transfer")
               ELSE Raise(x, "NotADirectoryError"))

\* lines 360-377
GetValidateLocal(c) ==
    /\ At(c, "get", "g_local")
    /\ LET x == ctx[c]
           loc == Abspath(x.local)
           l == OsStat(lfs, loc)
           lp == OsStat(lfs, Dirname(StripSep(loc)))
       IN  OnlyCtx(c,
               IF IsEmptyStr(x.local) THEN Raise(x, "ValueError")
               ELSE IF l = "ok"
                    THEN IF lfs[StripSep(loc).parts].kind = "dir" THEN Raise(x, "ValueError")
                         ELSE Goto([x EXCEPT !.local = loc], "g_transfer")
               ELSE IF l = "ENOENT"
                    THEN IF lp = "ok" THEN Goto([x EXCEPT !.local = loc], "g_transfer")
                         ELSE IF lp = "ENOENT" THEN Raise(x, "FileNotFoundError")
                         ELSE Raise(x, "NotADirectoryError")
               ELSE Raise(x, "NotADirectoryError"))

\* where get goes when the direct fetch is denied (line 382)
GetDeniedSkips(x) == "g_mode"
GetDeniedNext(x) == "g_cp"

\* lines 379-382: the direct fetch
GetTransfer(c) ==
    /\ At(c, "get", "g_transfer")
    /\ LET x == Logged(ctx[c], "sftp.get", ctx[c].remote.parts)
           lf == LocalOpenWb(lfs, x.local.parts)
           r == SftpGet(rfs, x.remote.parts)
       IN  CASE HasTrailingSep(ctx[c].local) ->
                  CtxAndFiles(c, Raise(ctx[c], "IsADirectoryError"), rfs, lfs)
             [] r.exc = "none" ->
                  CtxAndFiles(c, Goto(x, "g_mode"), r.fs, LocalWrite(lf, x.local.parts, r.val))
             [] r.exc = "PermissionError" ->
                  CtxAndFiles(c, Goto(x, GetDeniedNext(x)), r.fs, lf)
             [] OTHER ->
                  CtxAndFiles(c, Raise(x, r.exc), r.fs, lf)

\* the mutant of GetCp: the exit code of the copy is not looked at
GetCpUnchecked(c) ==
    /\ At(c, "get", "g_cp")
    /\ LET cmd == CmdCp(ctx[c].remote)
           x == RunLogged(ctx[c], cmd)
           o == RunRemote(rfs, sudoOk, cmd)
       IN  CtxAndRemote(c, Goto(x, "g_whoami"), o.fs)

\* lines 383-385
GetCp(c) ==
    /\ At(c, "get", "g_cp")
    /\ LET cmd == CmdCp(ctx[c].remote)
           x == RunLogged(ctx[c], cmd)
           o == RunRemote(rfs, sudoOk, cmd)
       IN  CtxAndRemote(c,
               IF o.code # 0 THEN Raise(x, "RuntimeError") ELSE Goto(x, "g_whoami"),
               o.fs)

\* lines 387-390
GetWhoami(c) ==
    /\ At(c, "get", "g_whoami")
    /\ LET cmd == CmdWhoami
           x == RunLogged(ctx[c], cmd)
           o == RunRemote(rfs, sudoOk, cmd)
       IN  CtxAndRemote(c,
               IF o.code # 0 THEN Raise(x, "RuntimeError")
               ELSE Goto([x EXCEPT !.username = o.out], "g_chown"),
               o.fs)

\* lines 392-397
GetChown(c) ==
    /\ At(c, "get", "g_chown")
    /\ LET cmd == CmdChown(ctx[c].username, StagePath(ctx[c].remote))
           x == RunLogged(ctx[c], cmd)
           o == RunRemote(rfs, sudoOk, cmd)
       IN  CtxAndRemote(c,
               IF o.code # 0 THEN Raise(x, "RuntimeError") ELSE Goto(x, "g_fetch"),
               o.fs)

\* lines 399-400: the fetch of the staged copy
GetFetch(c) ==
    /\ At(c, "get", "g_fetch")
    /\ LET t == StagePath(ctx[c].remote)
           x == Logged(ctx[c], "sftp.get", t.parts)
           lf == LocalOpenWb(lfs, x.local.parts)
           r == SftpGet(rfs, t.parts)
       IN  IF r.exc = "none"
           THEN CtxAndFiles(c, Goto(x, "g_remove"), r.fs, LocalWrite(lf, x.local.parts, r.val))
           ELSE CtxAndFiles(c, Raise(x, r.exc), r.fs, lf)

\* the mutant of GetRemove: the staged copy is left where it is
GetRemoveSkipped(c) ==
    /\ At(c, "get", "g_remove")
    /\ CtxAndRemote(c, Goto(ctx[c], "g_mode"), rfs)

\* line 401
GetRemove(c) ==
    /\ At(c, "get", "g_remove")
    /\ LET t == StagePath(ctx[c].remote)
           x == Logged(ctx[c], "sftp.remove", t.parts)
           r == SftpRemove(rfs, t.parts)
       IN  CtxAndRemote(c,
               IF r.exc = "none" THEN Goto(x, "g_mode") ELSE Raise(x, r.exc),
               r.fs)

\* lines 404-409: the direct read of the remote mode
GetMode(c) ==
    /\ At(c, "get", "g_mode")
    /\ IF ~ctx[c].preserve
       THEN OnlyCtx(c, Goto(ctx[c], "done"))
       ELSE LET x == Logged(ctx[c], "sftp.stat", ctx[c].remote.parts)
                r == SftpStat(rfs, x.remote.parts)
            IN  OnlyCtx(c,
                    CASE r.exc = "none" -> Goto([x EXCEPT !.mode = r.val.mode], "g_chmod")
                      [] r.exc = "PermissionError" -> Goto(x, "g_mode_sudo")
                      [] OTHER -> Raise(x, r.exc))

\* what self.run(f"sudo stat {remote}") can return at line 410: the report
\* of stat(1); a non-zero exit (the sudo policy of the host does not cover
\* stat, or the command otherwise fails); or a report without an "Access: ("
\* line, when the host does not honour LANG and prints in its own language
StatResults(fs, granted, cmd) ==
    LET o == RunRemote(fs, granted, cmd)
    IN  IF o.code # 0 THEN {o}
        ELSE {o, Out(1, <<>>, fs), Out(0, [o.out EXCEPT !.access = <<>>], fs)}

\* the mutant of GetModeSudo: a failed or unreadable report counts as mode 0
GetModeSudoLenient(c) ==
    /\ At(c, "get", "g_mode_sudo")
    /\ LET cmd == CmdStat(ctx[c].remote)
           x == RunLogged(ctx[c], cmd)
       IN  \E o \in StatResults(rfs, sudoOk, cmd) :
             CtxAndRemote(c,
                 IF o.code # 0 \/ MatchMode(o.out) = <<>>
                 THEN Goto([x EXCEPT !.mode = 0], "g_chmod")
                 ELSE Goto([x EXCEPT !.mode = ParseOct(MatchMode(o.out))], "g_chmod"),
                 o.fs)

\* lines 410-417
GetModeSudo(c) ==
    /\ At(c, "get", "g_mode_sudo")
    /\ LET cmd == CmdStat(ctx[c].remote)
           x == RunLogged(ctx[c], cmd)
       IN  \E o \in StatResults(rfs, sudoOk, cmd) :
             CtxAndRemote(c,
                 IF o.code # 0 THEN Raise(x, "RuntimeError")
                 ELSE IF MatchMode(o.out) = <<>> THEN Raise(x, "ValueError")
                 ELSE Goto([x EXCEPT !.mode = ParseOct(MatchMode(o.out))], "g_chmod"),
                 o.fs)

\* what lines 420-422 leave as the local file's mode: os.chmod(local, mode),
\* then shutil.chown(local, current_user, current_user)
ModeAfterChmodChown(m) == ChownClearsBits(m)

\* lines 419-422
GetChmodLocal(c) ==
    /\ At(c, "get", "g_chmod")
    /\ LET x == ctx[c]
       IN  CtxAndFiles(c, Goto(x, "done"), rfs,
               FsPut(lfs, x.local.parts,
                     [lfs[x.local.parts] EXCEPT !.mode = ModeAfterChmodChown(x.mode)]))

GetStep(c) ==
    \/ GetSftp(c)
    \/ GetValidateRemote(c)
    \/ GetProbe(c)
    \/ GetSudoIsFile(c)
    \/ GetValidateLocal(c)
    \/ GetTransfer(c)
    \/ GetCp(c)
    \/ GetWhoami(c)
    \/ GetChown(c)
    \/ GetFetch(c)
    \/ GetRemove(c)
    \/ GetMode(c)
    \/ GetModeSudo(c)
    \/ GetChmodLocal(c)

(***************************************************************************)
(* The caller's program, and the hosts it runs against.                    *)
(***************************************************************************)
EmptyFs == [p \in {} |-> 0]

\* the remote host: /app belongs to the login user, /root is closed to it,
\* /etc can be read but not written, /tmp is sticky and open to all
BaseRemote ==
    <<>> :> DirNode("root", Oct(0, 7, 5, 5))
    @@ <<"app">> :> DirNode("user", Oct(0, 7, 5, 5))
    @@ <<"root">> :> DirNode("root", Oct(0, 7, 0, 0))
    @@ <<"etc">> :> DirNode("root", Oct(0, 7, 5, 5))
    @@ <<"tmp">> :> DirNode("root", Oct(1, 7, 7, 7))

RemoteLayouts ==
    { BaseRemote @@ a @@ b @@ e @@ t :
        a \in {EmptyFs, <<"app", "f">> :> FileNode("user", Oct(4, 7, 5, 5), 2)},
        b \in {EmptyFs, <<"root", "f">> :> FileNode("root", Oct(4, 7, 5, 5), 2),
               <<"root", "f">> :> DirNode("root", Oct(0, 7, 5, 5))},
        e \in {EmptyFs, <<"etc", "f">> :> FileNode("root", Oct(0, 6, 0, 0), 2)},
        t \in {EmptyFs, <<"tmp", "f">> :> FileNode("root", Oct(0, 6, 4, 4), 3)} }

\* the caller's machine: the file to upload is /home/f, the working directory /home
BaseLocal ==
    <<>> :> DirNode("me", Oct(0, 7, 5, 5))
    @@ <<"home">> :> DirNode("me", Oct(0, 7, 5, 5))
    @@ <<"home", "f">> :> FileNode("me", Oct(0, 6, 0, 0), 1)
    @@ <<"home", "s">> :> FileNode("me", Oct(4, 7, 5, 5), 1)
    @@ <<"home", "d">> :> DirNode("me", Oct(0, 7, 5, 5))

RemoteArgs ==
    { Path(FALSE, <<>>), Path(FALSE, <<"f">>), Path(TRUE, <<"nx">>),
      Path(TRUE, <<"app">>), Path(TRUE, <<"app", "f">>), Path(TRUE, <<"app", "nx", "f">>),
      Path(TRUE, <<"root">>), Path(TRUE, <<"root", "f">>), Path(TRUE, <<"root", "nx", "f">>),
      Path(TRUE, <<"etc", "f">>), Path(TRUE, <<"tmp", "f">>) }

PutLocalArgs ==
    { StreamObject, Path(FALSE, <<"f">>), Path(TRUE, <<"home", "s">>),
      Path(FALSE, <<"nx">>), Path(FALSE, <<>>) }

GetLocalArgs ==
    { Path(FALSE, <<>>), Path(FALSE, <<"g">>), Path(FALSE, <<"f">>),
      Path(TRUE, <<"home", "d">>), Path(TRUE, <<"home", "nx", "g">>) }

NewCall(op, pc, l, r, pm, sd) ==
    [IdleCtx EXCEPT !.op = op, !.pc = pc, !.arg_local = l, !.arg_remote = r,
                    !.local = l, !.remote = r, !.preserve = pm, !.sudo = sd]

CallEnded(c) == ctx[c].pc \in {"done", "failed"}

\* the program makes its next call; a call that ended goes to the history,
\* with the remote file system as it left it
Begin(c, kind, x) ==
    /\ prog # <<>> /\ Head(prog) = kind
    /\ ctx[c].pc = "idle" \/ CallEnded(c)
    /\ ctx' = [ctx EXCEPT ![c] = x]
    /\ hist' = IF CallEnded(c) THEN Append(hist, ctx[c] @@ [after |-> rfs]) ELSE hist
    /\ prog' = Tail(prog)
    /\ UNCHANGED <<sessVars, thrVars, runVars, rfs, lfs, sudoOk>>

CallPut(c) ==
    \E l \in PutLocalArgs, r \in RemoteArgs, pm \in BOOLEAN, sd \in BOOLEAN :
        Begin(c, "put", NewCall("put", "p_local", l, r, pm, sd))

CallGet(c) ==
    \E r \in RemoteArgs, l \in GetLocalArgs, pm \in BOOLEAN, sd \in BOOLEAN :
        Begin(c, "get", NewCall("get", "g_sftp", l, r, pm, sd))

\* get of the file the put before it has just written
CallGetBack(c) ==
    /\ At(c, "put", "done")
    /\ \E l \in {Path(FALSE, <<"g">>), Path(TRUE, <<"home", "f">>)},
          pm \in BOOLEAN, sd \in BOOLEAN :
        Begin(c, "get_back", NewCall("get", "g_sftp", l, ctx[c].remote, pm, sd))

InitNoXfer ==
    /\ rfs = BaseRemote
    /\ lfs = BaseLocal
    /\ sudoOk = TRUE
    /\ prog = <<>>
    /\ ctx = [c \in Callers |-> IdleCtx]
    /\ hist = <<>>

InitHosts ==
    /\ rfs \in RemoteLayouts
    /\ lfs = BaseLocal
    /\ sudoOk \in BOOLEAN
    /\ sftp \in {0, 1}
    /\ nOpened = sftp
    /\ sess = OpenSession(NoDuration)
    /\ ctx = [c \in Callers |-> IdleCtx]
    /\ hist = <<>>

(***************************************************************************)
(* Specifications.                                                         *)
(***************************************************************************)
\* several threads read the `sftp` property of one session
InitSftp == InitSession /\ InitThreads /\ InitRun /\ active = {} /\ InitNoXfer

NextSftp ==
    \E t \in Threads :
        \/ SftpTest(t)
        \/ SftpOpen(t)
        \/ SftpAssign(t)
        \/ SftpReturn(t)

SpecSftp == InitSftp /\ [][NextSftp]_vars

\* one caller runs one command
InitOneRun == InitSession /\ InitThreads /\ InitRun /\ active = {1} /\ InitNoXfer

NextRun ==
    \E r \in Runners :
        \/ RunStep(r)
        \/ RemoteStep(r)

SpecRun == InitOneRun /\ [][NextRun]_vars

\* one run of a command that prints one byte, on stdout only or on each
\* stream, by the current runner or by the legacy one
InitRunners ==
    /\ InitSession /\ InitThreads /\ InitNoXfer
    /\ active = {1}
    /\ bounded \in BOOLEAN
    /\ rs \in {[r \in Runners |-> NewRun(c, NoEnv)] : c \in {<<"one">>, <<"echo">>}}
    /\ ch = [r \in Runners |-> NoChannel]
    /\ rem = [r \in Runners |-> NoRemote]
    /\ registered = {}
    /\ stdout_chunks = <<>>
    /\ stderr_chunks = <<>>

SpecRunners == InitRunners /\ [][NextRun]_vars

\* the same, with the caller's thread scheduled fairly
SpecRunFair ==
    /\ InitOneRun
    /\ [][NextRun]_vars
    /\ \A r \in Runners : WF_vars(RunStep(r))

(***************************************************************************)
(* The life of a session: __init__ (lines 86-118), __enter__ / __exit__    *)
(* (131-135) and close (208-213).                                          *)
(***************************************************************************)
OnlySess(x) ==
    /\ sess' = x
    /\ UNCHANGED <<sftp, nOpened, thrVars, runVars, xferVars>>

\* the mutant of InitDuration: the duration is not checked
InitDurationUnchecked ==
    /\ sess.pc = "init"
    /\ OnlySess([sess EXCEPT !.duration = sess.arg_duration, !.pc = "connect"])

\* lines 86-91: self.duration = float(duration); a value <= 0 raises ValueError
InitDuration ==
    /\ sess.pc = "init"
    /\ OnlySess(IF sess.arg_duration.given /\ sess.arg_duration.val <= 0
                THEN [sess EXCEPT !.duration = sess.arg_duration,
                                  !.pc = "init_failed", !.exc = "ValueError"]
                ELSE [sess EXCEPT !.duration = sess.arg_duration, !.pc = "connect"])

\* lines 100-110: client.connect succeeds
InitConnect ==
    /\ sess.pc = "connect"
    /\ OnlySess([sess EXCEPT !.dialed = TRUE, !.conn = "open", !.pc = "fields"])

\* lines 103-110: client.connect raises (socket.timeout, authentication)
InitConnectFails ==
    /\ sess.pc = "connect"
    /\ OnlySess([sess EXCEPT !.dialed = TRUE, !.pc = "init_failed", !.exc = "connect"])

\* lines 112-118: the selector, the two buffers, self._sftp = None;
\* __enter__ (131-132) returns self
InitFields ==
    /\ sess.pc = "fields"
    /\ sess' = [sess EXCEPT !.sel = "open", !.pc = IF sess.scoped THEN "body" ELSE "ready"]
    /\ sftp' = 0
    /\ stdout_chunks' = <<>>
    /\ stderr_chunks' = <<>>
    /\ UNCHANGED <<nOpened, thrVars, xferVars, active, bounded, rs, ch, rem, registered>>

\* nobody is inside the `sftp` property, run, put or get
Quiescent ==
    /\ \A t \in Threads : tpc[t] \in {"idle", "done"}
    /\ \A r \in Runners : rs[r].pc \in {"idle", "returned", "raised"}
    /\ \A c \in Callers : ctx[c].pc \in {"idle", "done", "failed"}

InUse == sess.pc \in {"ready", "body"}

\* the mutant of CloseSession: only the connection is closed
CloseConnOnly(x, handle) == [x EXCEPT !.sel = "closed", !.conn = "closed", !.pc = "closed"]

\* close, lines 208-213: self.sel.close(); self.client.close(); then
\* self._sftp.close() when self._sftp is not None
CloseSession(x, handle) ==
    [x EXCEPT !.sel = "closed", !.conn = "closed", !.pc = "closed",
              !.sftp_closed = IF handle # 0 THEN @ \cup {handle} ELSE @]

\* the caller calls close() on a session it does not use in a `with`
Close ==
    /\ sess.pc = "ready" /\ Quiescent
    /\ OnlySess(CloseSession(sess, sftp))

\* the body of the `with` statement ends
BodyEnds ==
    /\ sess.pc = "body" /\ Quiescent
    /\ OnlySess([sess EXCEPT !.pc = "exit"])

\* the body of the `with` statement raises
BodyRaises ==
    /\ sess.pc = "body" /\ Quiescent
    /\ OnlySess([sess EXCEPT !.pc = "exit", !.exc = "body"])

\* __exit__, lines 134-135: self.close(); the exception of the body, if any,
\* is not swallowed
Exit ==
    /\ sess.pc = "exit"
    /\ OnlySess(CloseSession(sess, sftp))

\* the session is used: one thread at a time reads the `sftp` property
UseSftp(t) ==
    /\ InUse
    /\ tpc[t] \notin {"idle"} \/ Quiescent
    /\ \/ SftpTest(t)
       \/ SftpOpen(t)
       \/ SftpAssign(t)
       \/ SftpReturn(t)

\* the session is used: a command is run while nothing else is going on
UseRun(r) ==
    /\ InUse
    /\ rs[r].pc \notin {"idle"} \/ Quiescent
    /\ \/ RunStep(r)
       \/ RemoteStep(r)

InitLife ==
    /\ sess \in {NewSession(d, w) : d \in {NoDuration, Dur(-1), Dur(0), Dur(1)},
                                      w \in BOOLEAN}
    /\ sftp = 0
    /\ nOpened = 0
    /\ InitThreads /\ InitNoXfer
    /\ active = {1}
    /\ bounded = TRUE
    /\ rs = [r \in Runners |-> NewRun(<<"echo">>, NoEnv)]
    /\ ch = [r \in Runners |-> NoChannel]
    /\ rem = [r \in Runners |-> NoRemote]
    /\ registered = {}
    /\ stdout_chunks = <<>>
    /\ stderr_chunks = <<>>

NextLife ==
    \/ InitDuration
    \/ InitConnect
    \/ InitConnectFails
    \/ InitFields
    \/ Close
    \/ BodyEnds
    \/ BodyRaises
    \/ Exit
    \/ \E t \in Threads : UseSftp(t)
    \/ \E r \in Runners : UseRun(r)

SpecLife == InitLife /\ [][NextLife]_vars

\* two threads call run on one session at the same time: the first runs a
\* command that prints, the second one that prints nothing
InitTwoRuns ==
    /\ InitSession /\ InitThreads /\ InitNoXfer
    /\ active = Runners
    /\ bounded = TRUE
    /\ rs = [r \in Runners |-> NewRun(IF r = 1 THEN <<"echo">> ELSE <<"quiet">>, NoEnv)]
    /\ ch = [r \in Runners |-> NoChannel]
    /\ rem = [r \in Runners |-> NoRemote]
    /\ registered = {}
    /\ stdout_chunks = <<>>
    /\ stderr_chunks = <<>>

SpecTwoRuns == InitTwoRuns /\ [][NextRun]_vars

\* two runs on one session, one after the other: the second is called when
\* the first has returned or raised.  Each command prints one byte on each
\* stream or nothing; the server may still be delivering for the first
\* channel while the second run is under way
SeqRun(r) ==
    /\ \A q \in Runners : q < r => rs[q].pc \in {"returned", "raised"}
    /\ RunStep(r)

InitRunSeq ==
    /\ InitSession /\ InitThreads /\ InitNoXfer
    /\ active = Runners
    /\ bounded = TRUE
    /\ rs \in [Runners -> {NewRun(<<"echo">>, NoEnv), NewRun(<<"quiet">>, NoEnv)}]
    /\ ch = [r \in Runners |-> NoChannel]
    /\ rem = [r \in Runners |-> NoRemote]
    /\ registered = {}
    /\ stdout_chunks = <<>>
    /\ stderr_chunks = <<>>

NextRunSeq ==
    \E r \in Runners :
        \/ SeqRun(r)
        \/ RemoteStep(r)

SpecRunSeq == InitRunSeq /\ [][NextRunSeq]_vars

\* a sequential series on a fresh session: a run of a command that prints
\* nothing, a read of `sftp`, a put, a read of `sftp`, a get of the file the
\* put wrote, a read of `sftp`.  The first read may be left out, so that the
\* put is the first access.
CallsEnded == Len(hist) + (IF \E c \in Callers : CallEnded(c) THEN 1 ELSE 0)

SeriesRun(r) ==
    /\ rs[r].pc \notin {"returned", "raised"}
    /\ \A t \in Threads : tpc[t] = "idle"
    /\ \A c \in Callers : ctx[c].pc = "idle"
    /\ \/ RunStep(r)
       \/ RemoteStep(r)

SeriesSftp(t) ==
    /\ \A r \in active : rs[r].pc \in {"returned", "raised"}
    /\ \A c \in Callers : ctx[c].pc = "idle" \/ CallEnded(c)
    /\ CallsEnded = t - 1
    /\ \/ SftpTest(t)
       \/ SftpOpen(t)
       \/ SftpAssign(t)
       \/ SftpReturn(t)

SeriesPut(c) ==
    /\ \A r \in active : rs[r].pc \in {"returned", "raised"}
    /\ tpc[1] \in {"idle", "done"}
    /\ CallPut(c)

SeriesGet(c) ==
    /\ tpc[2] = "done"
    /\ CallGetBack(c)

InitSeries ==
    /\ InitSession
    /\ InitThreads
    /\ rfs = BaseRemote
    /\ lfs = BaseLocal
    /\ sudoOk = TRUE
    /\ ctx = [c \in Callers |-> IdleCtx]
    /\ hist = <<>>
    /\ prog = <<"put", "get_back">>
    /\ active = {1}
    /\ bounded = TRUE
    /\ rs = [r \in Runners |-> NewRun(<<"quiet">>, NoEnv)]
    /\ ch = [r \in Runners |-> NoChannel]
    /\ rem = [r \in Runners |-> NoRemote]
    /\ registered = {}
    /\ stdout_chunks = <<>>
    /\ stderr_chunks = <<>>

NextSeries ==
    \/ \E r \in Runners : SeriesRun(r)
    \/ \E t \in Threads : SeriesSftp(t)
    \/ \E c \in Callers :
        \/ SeriesPut(c)
        \/ SeriesGet(c)
        \/ PutStep(c)
        \/ GetStep(c)

SpecSeries == InitSeries /\ [][NextSeries]_vars

\* a program that calls run, then put of /home/f, then get of the file the put
\* wrote, on a host that grants sudo or not; its thread is always scheduled:
\* a call that can take a step takes one
OncePut(c) ==
    /\ \A r \in active : rs[r].pc \in {"returned", "raised"}
    /\ \E r \in RemoteArgs, pm \in BOOLEAN, sd \in BOOLEAN :
        Begin(c, "put", NewCall("put", "p_local", Path(FALSE, <<"f">>), r, pm, sd))

InitOnce ==
    /\ InitSession
    /\ InitThreads
    /\ rfs = BaseRemote
    /\ lfs = BaseLocal
    /\ sudoOk \in BOOLEAN
    /\ ctx = [c \in Callers |-> IdleCtx]
    /\ hist = <<>>
    /\ prog = <<"put", "get_back">>
    /\ active = {1}
    /\ bounded = TRUE
    /\ rs = [r \in Runners |-> NewRun(<<"quiet">>, NoEnv)]
    /\ ch = [r \in Runners |-> NoChannel]
    /\ rem = [r \in Runners |-> NoRemote]
    /\ registered = {}
    /\ stdout_chunks = <<>>
    /\ stderr_chunks = <<>>

NextOnce ==
    \/ \E r \in Runners : SeriesRun(r)
    \/ \E c \in Callers :
        \/ OncePut(c)
        \/ CallGetBack(c)
        \/ PutStep(c)
        \/ GetStep(c)

SpecOnce == InitOnce /\ [][NextOnce]_vars /\ WF_vars(NextOnce)

\* one caller runs one command, given with any text and environment, on a
\* session with or without a duration cap
CmdArgs ==
    { <<"quiet">>, <<"slow">>, <<"echo">>, <<"echo", "|", "quiet">>,
      <<"slow", "|", "quiet">>, <<"quiet", "|", "slow">> }

EnvArgs ==
    { NoEnv, NoneEnv, Env(<<>>), Env("LANG" :> "C"), Env("X" :> "1"),
      Env("LANG" :> "C" @@ "X" :> "1") }

InitRunArgs ==
    /\ sftp = 0
    /\ nOpened = 0
    /\ sess \in {OpenSession(d) : d \in {NoDuration, Dur(1)}}
    /\ InitThreads /\ InitNoXfer
    /\ active = {1}
    /\ bounded = TRUE
    /\ rs \in {[r \in Runners |-> IF r = 1 THEN NewRun(c, e) ELSE NewRun(AnyCommand, NoEnv)] :
                  c \in CmdArgs, e \in EnvArgs}
    /\ ch = [r \in Runners |-> NoChannel]
    /\ rem = [r \in Runners |-> NoRemote]
    /\ registered = {}
    /\ stdout_chunks = <<>>
    /\ stderr_chunks = <<>>

SpecRunArgs == InitRunArgs /\ [][NextRun]_vars

\* one caller runs a command that prints bytes that are and are not UTF-8
InitDecode ==
    /\ InitSession /\ InitThreads /\ InitNoXfer
    /\ active = {1}
    /\ bounded = TRUE
    /\ rs = [r \in Runners |-> NewRun(<<"raw">>, NoEnv)]
    /\ ch = [r \in Runners |-> NoChannel]
    /\ rem = [r \in Runners |-> NoRemote]
    /\ registered = {}
    /\ stdout_chunks = <<>>
    /\ stderr_chunks = <<>>

SpecDecode == InitDecode /\ [][NextRun]_vars

\* one put or one get, with any arguments, against any of the hosts
InitXfer ==
    /\ InitThreads /\ InitRun /\ active = {}
    /\ InitHosts
    /\ prog \in {<<"put">>, <<"get">>}

NextXfer ==
    \E c \in Callers :
        \/ CallPut(c)
        \/ CallGet(c)
        \/ PutStep(c)
        \/ GetStep(c)

SpecXfer == InitXfer /\ [][NextXfer]_vars

\* one get of /app/f or /root/f into a local path that may be missing, lie
\* below a missing directory or below a file, or end in a separator
LocalPathArgs ==
    GetLocalArgs \cup
    { Path(FALSE, <<"g", "">>), Path(TRUE, <<"home", "g", "">>),
      Path(TRUE, <<"home", "d", "">>), Path(TRUE, <<"home", "nx", "g", "">>),
      Path(TRUE, <<"home", "f", "g">>), Path(TRUE, <<"home", "f", "">>) }

CallGetLocal(c) ==
    \E r \in {Path(TRUE, <<"app", "f">>), Path(TRUE, <<"root", "f">>)},
       l \in LocalPathArgs, pm \in BOOLEAN, sd \in BOOLEAN :
        Begin(c, "get_local", NewCall("get", "g_sftp", l, r, pm, sd))

InitGetLocal ==
    /\ InitThreads /\ InitRun /\ active = {}
    /\ InitHosts
    /\ prog = <<"get_local">>

NextGetLocal ==
    \E c \in Callers :
        \/ CallGetLocal(c)
        \/ GetStep(c)

SpecGetLocal == InitGetLocal /\ [][NextGetLocal]_vars

\* one get of /root/f or of /tmp/f, a file that lies in the staging directory
\* itself and that the login user may or may not read
TmpLayouts ==
    { BaseRemote @@ b @@ t :
        b \in {EmptyFs, <<"root", "f">> :> FileNode("root", Oct(0, 6, 0, 0), 2)},
        t \in {EmptyFs, <<"tmp", "f">> :> FileNode("root", Oct(0, 6, 0, 0), 3),
               <<"tmp", "f">> :> FileNode("root", Oct(0, 6, 4, 4), 3)} }

CallGetTmp(c) ==
    \E r \in {Path(TRUE, <<"root", "f">>), Path(TRUE, <<"tmp", "f">>)},
       pm \in BOOLEAN, sd \in BOOLEAN :
        Begin(c, "get_tmp", NewCall("get", "g_sftp", Path(FALSE, <<"g">>), r, pm, sd))

InitGetTmp ==
    /\ InitThreads /\ InitRun /\ active = {}
    /\ rfs \in TmpLayouts
    /\ lfs = BaseLocal
    /\ sudoOk \in BOOLEAN
    /\ sftp \in {0, 1}
    /\ nOpened = sftp
    /\ sess = OpenSession(NoDuration)
    /\ ctx = [c \in Callers |-> IdleCtx]
    /\ hist = <<>>
    /\ prog = <<"get_tmp">>

NextGetTmp ==
    \E c \in Callers :
        \/ CallGetTmp(c)
        \/ GetStep(c)

SpecGetTmp == InitGetTmp /\ [][NextGetTmp]_vars

\* two threads, each in one put or get with sudo=True on the same session, at
\* the same time.  Transfer 1 works on /root/f, transfer 2 on /etc/f: two
\* root-only files with the same name.  A put uploads a local file named f
\* (/home/f resp. /home/d/f), a get downloads into /home/g resp. /home/d/g.
\* The four files involved have four different contents.
Transfers == {1, 2}

TwoRemote ==
    BaseRemote
    @@ <<"root", "f">> :> FileNode("root", Oct(0, 6, 0, 0), 2)
    @@ <<"etc", "f">> :> FileNode("root", Oct(0, 6, 0, 0), 3)

TwoLocal == BaseLocal @@ (<<"home", "d", "f">> :> FileNode("me", Oct(0, 6, 0, 0), 4))

RemoteOf(c) == IF c = 1 THEN Path(TRUE, <<"root", "f">>) ELSE Path(TRUE, <<"etc", "f">>)
LocalDir(c) == IF c = 1 THEN <<"home">> ELSE <<"home", "d">>

TransferCalls(c) ==
    { NewCall("put", "p_local", Path(TRUE, LocalDir(c) \o <<"f">>), RemoteOf(c), pm, TRUE) :
        pm \in BOOLEAN }
    \cup
    { NewCall("get", "g_sftp", Path(TRUE, LocalDir(c) \o <<"g">>), RemoteOf(c), pm, TRUE) :
        pm \in BOOLEAN }

InitTwoXfers ==
    /\ InitThreads /\ InitRun /\ active = {}
    /\ rfs = TwoRemote
    /\ lfs = TwoLocal
    /\ sudoOk = TRUE
    /\ sftp = 1 /\ nOpened = 1
    /\ sess = OpenSession(NoDuration)
    /\ ctx \in [Transfers -> UNION {TransferCalls(c) : c \in Transfers}]
    /\ \A c \in Transfers : ctx[c] \in TransferCalls(c)
    /\ hist = <<>>
    /\ prog = <<>>

\* one step of one of the two threads
TransferStep(c) ==
    /\ c \in Transfers
    /\ \/ PutStep(c)
       \/ GetStep(c)

NextTwoXfers == \E c \in Transfers : TransferStep(c)

SpecTwoXfers == InitTwoXfers /\ [][NextTwoXfers]_vars

\* a put of /home/f, then a get of the file it wrote
InitPutGet ==
    /\ InitThreads /\ InitRun /\ active = {}
    /\ InitHosts
    /\ prog = <<"put", "get_back">>

NextPutGet ==
    \E c \in Callers :
        \/ CallPut(c)
        \/ CallGetBack(c)
        \/ PutStep(c)
        \/ GetStep(c)

SpecPutGet == InitPutGet /\ [][NextPutGet]_vars

\* a put of /home/f (mode 0600) or of the read-only /home/r (mode 0444), then
\* the same put again: with the arguments of the first call, or with the
\* remote path the first call resolved its destination to
ReadOnlyLocal == BaseLocal @@ (<<"home", "r">> :> FileNode("me", Oct(0, 4, 4, 4), 1))

CallPutFirst(c) ==
    \E l \in {Path(FALSE, <<"f">>), Path(TRUE, <<"home", "r">>)},
       r \in RemoteArgs, pm \in BOOLEAN, sd \in BOOLEAN :
        Begin(c, "put", NewCall("put", "p_local", l, r, pm, sd))

CallPutAgain(c) ==
    /\ At(c, "put", "done")
    /\ \E r \in {ctx[c].arg_remote, ctx[c].remote} :
        Begin(c, "put_again",
              NewCall("put", "p_local", ctx[c].arg_local, r, ctx[c].preserve, ctx[c].sudo))

InitPutTwice ==
    /\ InitThreads /\ InitRun /\ active = {}
    /\ rfs \in RemoteLayouts
    /\ lfs = ReadOnlyLocal
    /\ sudoOk \in BOOLEAN
    /\ sftp \in {0, 1}
    /\ nOpened = sftp
    /\ sess = OpenSession(NoDuration)
    /\ ctx = [c \in Callers |-> IdleCtx]
    /\ hist = <<>>
    /\ prog = <<"put", "put_again">>

NextPutTwice ==
    \E c \in Callers :
        \/ CallPutFirst(c)
        \/ CallPutAgain(c)
        \/ PutStep(c)

SpecPutTwice == InitPutTwice /\ [][NextPutTwice]_vars

(***************************************************************************)
(* Claims about the `sftp` property and about run.                         *)
(***************************************************************************)
Ended(r) == rs[r].pc \in {"returned", "raised"}

\* C1: when several threads read the `sftp` property for the first time
\* concurrently, open_sftp is called exactly once and every thread gets the
\* same handle.
C1_OneHandleForAllThreads ==
    /\ nOpened <= 1
    /\ \A t, u \in Threads : tgot[t] # 0 /\ tgot[u] # 0 => tgot[t] = tgot[u]

\* C2: the stdout and stderr that run returns are exactly what the remote
\* process wrote to each stream (as decoded text): nothing lost, nothing twice.
C2_OutputComplete ==
    \A r \in Runners :
        rs[r].ret.set =>
            /\ rs[r].ret.out = Decode(rem[r].outAll)
            /\ rs[r].ret.err = Decode(rem[r].errAll)

\* C3: when the drain loop has ended the remote process has posted its exit
\* status, recv_exit_status does not block, and the code run returns is the
\* status the remote process posted.
C3_ExitStatusPosted ==
    \A r \in Runners :
        /\ rs[r].pc = "decode" => rem[r].posted /\ ch[r].status_event
        /\ rs[r].ret.set => rem[r].posted /\ rs[r].ret.code = rem[r].code

\* C3 witness: run returned a non-zero status, its loop ended by the break
\* while the channel was not yet closed by the remote side.
C3_Witness ==
    /\ rs[1].pc = "returned"
    /\ rs[1].ret.code = 2
    /\ ~rem[1].closed

\* C4: once the remote process has posted its status and closed the channel,
\* run eventually ends, whatever the order of the arrivals before, and
\* however many waits of select expired.
C4_RunTerminates ==
    \A r \in Runners : (ch[r].open /\ rem[r].closed) ~> Ended(r)

\* C4 witness: run returned after the remote side closed a channel that
\* carried output on both streams.
C4_Witness ==
    /\ rs[1].pc = "returned"
    /\ rem[1].closed
    /\ Len(rem[1].outAll) > 0
    /\ Len(rem[1].errAll) > 0

\* C5: on every path by which run ends after the channel was opened, the
\* channel has been unregistered from the selector and closed.
C5_ChannelReleased ==
    \A r \in Runners :
        Ended(r) /\ ch[r].open => r \notin registered /\ ch[r].close_called


(***************************************************************************)
(* Claims about put and get.                                               *)
(***************************************************************************)
BadRemoteArg(x) == IsEmptyStr(x.arg_remote) \/ ~IsAbs(x.arg_remote)
PutLocalValid(x) ==
    /\ ~x.arg_local.stream
    /\ LocalExists(Abspath(x.arg_local).parts)
    /\ lfs[Abspath(x.arg_local).parts].kind = "file"

\* C6: a put or get that fails with the invalid-argument error for an empty
\* or relative remote path has issued no remote call: its log of remote
\* operations (SFTP sub-channel opened, SFTP requests, commands) is empty.
C6_RejectedBeforeAnyRemoteCall ==
    \A c \in Callers :
        (/\ ctx[c].op \in {"put", "get"}
         /\ ctx[c].pc = "failed" /\ ctx[c].exc = "ValueError"
         /\ BadRemoteArg(ctx[c]))
        => ctx[c].log = <<>>

\* C7: a call with sudo = False never issues an elevated command and never
\* makes a second (staging) transfer.
C7_NoEscalationWhenDisabled ==
    \A c \in Callers :
        (ctx[c].op \in {"put", "get"} /\ ~ctx[c].sudo)
        => /\ \A op \in Ops(ctx[c]) : ~IsElevated(op)
           /\ Count(ctx[c], "sftp.put") <= 1
           /\ Count(ctx[c], "sftp.get") <= 1

\* the destination of a put does not exist, and neither does its parent
\* (or the parent is "/")
TargetAndParentMissing(x) ==
    /\ x.op = "put" /\ PutLocalValid(x) /\ ~BadRemoteArg(x)
    /\ Lookup(rfs, x.arg_remote.parts, TRUE) # "ok"
    /\ \/ Dirname(x.arg_remote).parts = <<>>
       \/ Lookup(rfs, Dirname(x.arg_remote).parts, TRUE) # "ok"

PastProbe(x) ==
    x.pc \in {"p_exists", "p_transfer", "p_stage", "p_move", "p_mode", "p_mode_sudo", "done"}

\* C8 as stated: such a put never gets past the probe, transfers nothing,
\* and when it fails it fails with the not-found error.
C8_MissingParentIsNotFound ==
    \A c \in Callers :
        TargetAndParentMissing(ctx[c])
        => /\ ~PastProbe(ctx[c])
           /\ Count(ctx[c], "sftp.put") = 0
           /\ ctx[c].pc = "failed" => ctx[c].exc = "FileNotFoundError"

\* C8 amended: such a put never gets past the probe and transfers nothing;
\* it fails with the not-found error when the direct probe reports not-found,
\* and when the direct probe is denied it fails with the permission error
\* (sudo = False) or with the assertion error (sudo = True).
C8_MissingParentFails ==
    \A c \in Callers :
        TargetAndParentMissing(ctx[c])
        => /\ ~PastProbe(ctx[c])
           /\ Count(ctx[c], "sftp.put") = 0
           /\ ctx[c].pc = "failed" =>
                ctx[c].exc =
                    IF SftpStat(rfs, ctx[c].arg_remote.parts).exc = "FileNotFoundError"
                    THEN "FileNotFoundError"
                    ELSE IF ctx[c].sudo THEN "AssertionError" ELSE "PermissionError"

C8_Witness ==
    \E c \in Callers :
        /\ TargetAndParentMissing(ctx[c])
        /\ ctx[c].pc = "failed" /\ ctx[c].exc = "FileNotFoundError"
        /\ Count(ctx[c], "sftp.stat") = 2

\* C9: after a put that succeeded and a get of the file it wrote that
\* succeeded too, the local copy holds the bytes the put sent.
C9_RoundTrip ==
    \A c \in Callers :
        (At(c, "get", "done") /\ hist # <<>>
            /\ hist[Len(hist)].op = "put" /\ hist[Len(hist)].pc = "done")
        => lfs[ctx[c].local.parts].content = hist[Len(hist)].sent

C9_Witness ==
    \E c \in Callers :
        /\ At(c, "get", "done") /\ hist # <<>>
        /\ "sudo cp {a} /tmp" \in Ops(ctx[c])
        /\ "sudo mv {a} {b}" \in Ops(hist[Len(hist)])
        /\ hist[Len(hist)].sent = 1

\* C10: after a successful put or get with preserve_mode the destination
\* has the permission bits of the source.
C10_ModePreserved ==
    \A c \in Callers :
        (ctx[c].pc = "done" /\ ctx[c].preserve)
        => rfs[ctx[c].remote.parts].mode = lfs[ctx[c].local.parts].mode

ModeOps == {"sftp.chmod", "sudo chmod {m} {a}"}

\* C11: a put or get without preserve_mode issues no mode-change operation,
\* direct or elevated; once its transfer is over it ends at once, and that
\* last step changes neither file system (no chmod, no chown) and issues no
\* further remote operation.
C11_NoModeChangeWhenUnset ==
    /\ [](\A c \in Callers :
            ~ctx[c].preserve =>
                /\ Ops(ctx[c]) \cap ModeOps = {}
                /\ ctx[c].pc \notin {"p_mode_sudo", "g_mode_sudo", "g_chmod"})
    /\ [][\A c \in Callers :
            (~ctx[c].preserve /\ ctx[c].pc \in {"p_mode", "g_mode"})
            => /\ ctx'[c].pc = "done"
               /\ ctx'[c].log = ctx[c].log
               /\ rfs' = rfs /\ lfs' = lfs]_vars

C11_Witness ==
    \E c \in Callers :
        /\ ctx[c].pc = "done" /\ ~ctx[c].preserve
        /\ "sftp.put" \in Ops(ctx[c])
        /\ rfs[ctx[c].remote.parts].mode # lfs[ctx[c].local.parts].mode

(***************************************************************************)
(* Claims about the arguments of run.                                      *)
(***************************************************************************)
Called(r) == rs[r].pc # "idle"
Returned(r) == rs[r].pc = "returned" /\ rs[r].ret.set

\* C12: with a duration cap d the text submitted is `timeout d <command>`,
\* without one it is the caller's text; and a command that outlives the cap
\* (one of its programs is slow) returns the exit code 124.
C12_DurationCap ==
    \A r \in Runners :
        /\ Called(r) =>
             rs[r].submitted =
                IF sess.duration.given /\ sess.duration.val > 0
                THEN <<"timeout", FloatText(sess.duration.val)>> \o rs[r].cmd
                ELSE rs[r].cmd
        /\ (Returned(r) /\ Truthy(sess.duration) /\ HasWord(rs[r].cmd, "slow"))
           => rs[r].ret.code = TIMEOUT_EXIT

C15_PipeAdvisory ==
    \A r \in Runners :
        /\ Called(r) /\ rs[r].env.kind # "none" =>
             rs[r].warned = IF \E i \in DOMAIN rs[r].submitted : rs[r].submitted[i] = "|"
                            THEN 1 ELSE 0
        /\ Returned(r) => rs[r].channels = 1 /\ rs[r].ret.code = rem[r].code

C15_Witness ==
    \E r \in Runners :
        /\ Returned(r)
        /\ rs[r].cmd = <<"echo", "|", "quiet">>
        /\ rs[r].warned = 1 /\ rs[r].ret.code = 0

(***************************************************************************)
(* Claims about the life of a session.                                     *)
(***************************************************************************)
\* C13: a constructor called with a duration that is zero or negative ends
\* with ValueError, and no connection has been attempted when it does.
C13_BadDurationRejectedFirst ==
    (sess.arg_duration.given /\ sess.arg_duration.val <= 0 /\ sess.pc # "init")
    => /\ sess.pc = "init_failed" /\ sess.exc = "ValueError"
       /\ ~sess.dialed /\ sess.conn = "none"

C13_Witness ==
    /\ sess.arg_duration = Dur(0)
    /\ sess.pc = "init_failed" /\ sess.exc = "ValueError"

\* C16: a closed session has its connection closed and every file-transfer
\* handle that was created closed; and a `with` statement whose body has
\* ended, normally or by an exception, closes the session in its next step.
C16_CloseReleasesAll ==
    /\ [](sess.pc = "closed" =>
            /\ sess.conn = "closed"
            /\ \A h \in 1..nOpened : h \in sess.sftp_closed)
    /\ [][sess.pc = "exit" => sess'.pc = "closed"]_vars
    /\ [][(sess.pc = "body" /\ sess'.pc # "body") => sess'.pc = "exit"]_vars

C16_Witness ==
    /\ sess.pc = "closed" /\ sess.scoped /\ sess.exc = "body"
    /\ nOpened = 1 /\ sess.sftp_closed = {1}

(***************************************************************************)
(* Claims about concurrent and repeated use of a session.                  *)
(***************************************************************************)
\* C17: with run called concurrently, each call that returns returns the
\* stdout and the stderr of its own command: nothing of another command's
\* output and all of its own.
C17_OwnOutputOnly ==
    \A r \in Runners :
        Returned(r) => /\ rs[r].ret.out = Decode(rem[r].outAll)
                       /\ rs[r].ret.err = Decode(rem[r].errAll)

\* C18: over a sequential series of run, `sftp` reads, put and get, the
\* sub-channel is opened at most once, every read of `sftp` returns that one
\* handle, and it is not opened before the first read, put or get (not by
\* the constructor and not by run).
C18_OpenedAtMostOnce ==
    /\ nOpened <= 1
    /\ sftp \in {0, nOpened}
    /\ \A t \in Threads : tgot[t] # 0 => tgot[t] = 1
    /\ ((\A t \in Threads : tpc[t] = "idle") /\ (\A c \in Callers : ctx[c].pc = "idle"))
       => nOpened = 0

C18_Witness ==
    /\ rs[1].pc = "returned"
    /\ tpc[1] = "idle" /\ tgot[2] = 1 /\ tgot[3] = 1
    /\ \E c \in Callers : At(c, "get", "done") /\ "open_sftp" \notin Ops(ctx[c])
    /\ hist # <<>> /\ "open_sftp" \in Ops(hist[1])
    /\ nOpened = 1

(***************************************************************************)
(* Claims about the validation of the local argument.                      *)
(***************************************************************************)
LocalArgErrno(x) == Lookup(lfs, Abspath(x.arg_local).parts, TRUE)
LocalArgIsDir(x) ==
    /\ ~x.arg_local.stream
    /\ LocalArgErrno(x) = "ok" /\ lfs[Abspath(x.arg_local).parts].kind = "dir"

\* C19: a put whose local argument is a file object, a path that does not
\* exist or a path that is not a regular file is over as soon as the
\* argument has been looked at: it has failed with ValueError,
\* FileNotFoundError or ValueError respectively, with no remote operation
\* issued and no SFTP sub-channel opened.
C19_PutLocalRejectedFirst ==
    \A c \in Callers :
        (ctx[c].op = "put" /\ ctx[c].pc # "p_local")
        => LET x == ctx[c]
               failedWith(e) == x.pc = "failed" /\ x.exc = e /\ x.log = <<>>
           IN  /\ x.arg_local.stream => failedWith("ValueError")
               /\ (~x.arg_local.stream /\ LocalArgErrno(x) # "ok")
                  => failedWith("FileNotFoundError")
               /\ LocalArgIsDir(x) => failedWith("ValueError")

C19_Witness ==
    \E c \in Callers :
        /\ ctx[c].op = "put" /\ ctx[c].pc = "failed"
        /\ ctx[c].arg_local = Path(FALSE, <<"nx">>)
        /\ ctx[c].exc = "FileNotFoundError"
        /\ sftp = 0

\* C20: a get whose local argument is empty or an existing directory, called
\* with a valid remote path, ends with ValueError and has made no network
\* round trip: no sub-channel opened, no remote probe, no command.
C20_GetLocalRejectedFirst ==
    \A c \in Callers :
        (/\ ctx[c].op = "get" /\ CallEnded(c)
         /\ ~BadRemoteArg(ctx[c])
         /\ IsEmptyStr(ctx[c].arg_local) \/ LocalArgIsDir(ctx[c]))
        => /\ ctx[c].pc = "failed" /\ ctx[c].exc = "ValueError"
           /\ ctx[c].log = <<>>


\* a get is past the probe of its source (lines 348-358)
GetPastProbe(x) ==
    x.pc \in {"g_local", "g_transfer", "g_cp", "g_whoami", "g_chown", "g_fetch",
              "g_remove", "g_mode", "g_mode_sudo", "g_chmod", "done"}

ProbeOf(x) == SftpStat(rfs, x.arg_remote.parts)

\* the call allows escalation and `sudo [ -f remote ]` exits 0 on this host
ElevatedSaysFile(x) == x.sudo /\ sudoOk /\ IsFileAsRoot(rfs, x.arg_remote.parts)

\* C21: a get whose direct probe shows a directory fails with ValueError
\* ("Remote must be a file") and fetches nothing; a get whose direct probe is
\* denied gets past the probe only with sudo = True and an elevated
\* `[ -f remote ]` that exits 0 (the host grants sudo and the path is a regular
\* file), and fails before any fetch otherwise.
C21_DirectoryOrUnverifiedRejected ==
    \A c \in Callers :
        (ctx[c].op = "get" /\ ~BadRemoteArg(ctx[c]) /\ ctx[c].pc # "g_sftp")
        => /\ (ProbeOf(ctx[c]).exc = "none" /\ ProbeOf(ctx[c]).val.kind = "dir")
                => /\ ~GetPastProbe(ctx[c])
                   /\ Count(ctx[c], "sftp.get") = 0
                   /\ ctx[c].pc = "failed" => ctx[c].exc = "ValueError"
           /\ (ProbeOf(ctx[c]).exc = "PermissionError" /\ GetPastProbe(ctx[c]))
                => /\ ElevatedSaysFile(ctx[c])
                   /\ Count(ctx[c], "sudo [ -f {a} ]") = 1
           /\ (ProbeOf(ctx[c]).exc = "PermissionError" /\ ~ElevatedSaysFile(ctx[c]))
                => /\ Count(ctx[c], "sftp.get") = 0
                   /\ ctx[c].pc = "failed" =>
                        ctx[c].exc = IF ctx[c].sudo THEN "AssertionError"
                                     ELSE "PermissionError"

\* C21 witness: get of the directory /app into a path that could be written
\* has failed with ValueError after the one probe.
C21_Witness ==
    \E c \in Callers :
        /\ At(c, "get", "failed") /\ ctx[c].exc = "ValueError"
        /\ ctx[c].arg_remote = Path(TRUE, <<"app">>)
        /\ ctx[c].arg_local = Path(FALSE, <<"g">>)
        /\ Count(ctx[c], "sftp.stat") = 1


(***************************************************************************)
(* Claims about the text run returns.                                      *)
(***************************************************************************)
\* run has decoded its buffers and has not yet reset them (line 199 reached)
Decoded(r) == rs[r].pc = "finally" /\ rs[r].ret.set

Unmarked(text) == SelectSeq(text, LAMBDA x : x # REPLACEMENT)

RepeatsPut(c) ==
    /\ ctx[c].op = "put" /\ hist # <<>>
    /\ hist[Len(hist)].op = "put" /\ hist[Len(hist)].pc = "done"

\* C23: a put that repeats a successful put (same arguments, or the resolved
\* path as the destination) succeeds too, resolves to the same file, and
\* leaves the remote host with the same files and that file with the same
\* content as the first put left it.
C23_PutIdempotent ==
    \A c \in Callers :
        (RepeatsPut(c) /\ CallEnded(c))
        => LET first == hist[Len(hist)]
           IN  /\ ctx[c].pc = "done"
               /\ ctx[c].remote = first.remote
               /\ DOMAIN rfs = DOMAIN first.after
               /\ rfs[ctx[c].remote.parts].kind = "file"
               /\ rfs[ctx[c].remote.parts].content = first.after[first.remote.parts].content


(***************************************************************************)
(* Claims about the drain loop of run.                                     *)
(***************************************************************************)
\* this step leaves the loop of lines 176-192: the while test fails, or the break
LoopEnds(r) == rs[r].pc \in {"loop", "check"} /\ rs'[r].pc = "decode"

\* C24: the drain loop ends only when the channel's read side has signalled
\* closed (EOF or close received), no stdout and no stderr bytes are
\* available, and the exit status is posted; it never ends while the channel
\* is open and the remote side still has bytes to deliver.
C24_LoopEndsOnlyWhenDrained ==
    [][\A r \in Runners :
        LoopEnds(r) =>
            /\ ch[r].eof_received \/ ch[r].closed
            /\ ~RecvReady(r) /\ ~RecvStderrReady(r)
            /\ ch[r].status_event /\ rem[r].posted
            /\ rem[r].outSent = Len(rem[r].outAll)
            /\ rem[r].errSent = Len(rem[r].errAll)]_vars


\* this step is the capture of lines 169-172, on a channel the remote side
\* has closed already
CapturesClosed(r) == rs[r].pc = "capture" /\ rs'[r].pc = "loop" /\ ch[r].closed

\* C25: when the channel is closed already as draining starts, the bytes
\* pending on stdout and on stderr are appended to the buffers of run by the
\* explicit capture that precedes the loop, so that nothing is left for the
\* selector to signal.
C25_PendingCapturedBeforeLoop ==
    [][\A r \in Runners :
        CapturesClosed(r) =>
            /\ stdout_chunks' = stdout_chunks \o ch[r].in_buffer
            /\ stderr_chunks' = stderr_chunks \o ch[r].in_stderr_buffer
            /\ ch'[r].in_buffer = <<>>
            /\ ch'[r].in_stderr_buffer = <<>>]_vars


\* run is between the capture and the reset of its buffers
Draining(r) == rs[r].pc \in {"capture", "loop", "select", "check", "decode", "finally"}

Delivered(all, n) == SubSeq(all, 1, n)

\* C26: in a call of run, what has been taken from a stream so far, followed
\* by what is still buffered in the channel, is what the channel was
\* delivered, in the order of delivery: the capture before the loop comes
\* first and every later read is appended.  The text returned is the
\* decoding of the bytes delivered up to some point.
C26_StreamOrderKept ==
    \A r \in active :
        /\ Draining(r) =>
            /\ stdout_chunks \o ch[r].in_buffer = Delivered(rem[r].outAll, rem[r].outSent)
            /\ stderr_chunks \o ch[r].in_stderr_buffer
                    = Delivered(rem[r].errAll, rem[r].errSent)
        /\ rs[r].ret.set =>
            /\ \E k \in 0..Len(rem[r].outAll) :
                    rs[r].ret.out = Decode(Delivered(rem[r].outAll, k))
            /\ \E k \in 0..Len(rem[r].errAll) :
                    rs[r].ret.err = Decode(Delivered(rem[r].errAll, k))

\* C26 witness: run has taken two different bytes from each stream, in the
\* order the remote process wrote them.
C26_Witness ==
    /\ Decoded(1)
    /\ stdout_chunks = <<65, 255>> /\ rem[1].outAll = <<65, 255>>
    /\ stderr_chunks = <<255, 65>> /\ rem[1].errAll = <<255, 65>>


\* this step is a select of run that returns with nothing ready, its budget
\* spent (and not one that fails with an I/O error of its own)
Expires(r) ==
    /\ rs[r].pc = "select" /\ Len(ReadyList) = 0
    /\ rs'[r] # rs[r] /\ rs'[r].err # "io"

\* C27: a select that returns on the expiry of its budget changes nothing
\* but the position of run, which goes on to the test of lines 184-188: no
\* result, no error, the channel as it was and still registered; and from
\* that test run leaves the loop only if the exit status is posted and
\* nothing is buffered, and takes the next iteration otherwise.
C27_ExpiryDoesNotEnd ==
    /\ [][\A r \in Runners :
            Expires(r) =>
                /\ rs'[r] = [rs[r] EXCEPT !.pc = "check"]
                /\ ch' = ch /\ registered' = registered
                /\ stdout_chunks' = stdout_chunks /\ stderr_chunks' = stderr_chunks]_vars
    /\ [][\A r \in Runners :
            (rs[r].pc = "check" /\ rs'[r] # rs[r]) =>
                IF (ch[r].status_event \/ ch[r].closed)
                       /\ ch[r].in_buffer = <<>> /\ ch[r].in_stderr_buffer = <<>>
                THEN rs'[r].pc = "decode"
                ELSE rs'[r].pc = "loop" /\ ch'[r] = ch[r]]_vars

\* C27 witness: a select has expired before anything arrived on the channel
\* (no byte, no status, no EOF), and run is at the test that follows it.
C27_Witness ==
    /\ rs[1].pc = "check"
    /\ 1 \in registered
    /\ ch[1].open /\ ~ch[1].status_event /\ ~ch[1].eof_received /\ ~ch[1].closed
    /\ rem[1].outSent = 0 /\ rem[1].errSent = 0
    /\ Len(rem[1].outAll) > 0


\* the number of places of put (lines 265, 277, 293; 302, 307; 280, 285) and
\* of get (349, 406; 381, 400) that issue an operation; every other
\* operation is issued from one place
Sites(kind, op) ==
    CASE op = "sftp.stat" -> IF kind = "put" THEN 3 ELSE 2
      [] op \in {"sftp.put", "sftp.get", "sudo [ -d {a} ]"} -> 2
      [] OTHER -> 1

InCall(c) == ctx[c].pc \notin {"idle", "done", "failed"}

\* C28: a call of run opens at most one channel, and exactly one when it
\* returns; within one put or get no operation is issued more often than
\* there are places that issue it, a second transfer is the one to or from
\* the staging path, and each elevated command of a fallback is issued at
\* most once; and a put or get that has started ends, in done or in failed.
C28_NothingRetried ==
    /\ [](\A r \in Runners :
            /\ rs[r].channels <= 1
            /\ rs[r].pc = "returned" => rs[r].channels = 1)
    /\ [](\A c \in Callers :
            /\ \A op \in Ops(ctx[c]) : Count(ctx[c], op) <= Sites(ctx[c].op, op)
            /\ \A i, j \in DOMAIN ctx[c].log :
                    (i < j /\ ctx[c].log[i].op = ctx[c].log[j].op
                           /\ ctx[c].log[i].op \in {"sftp.put", "sftp.get"})
                    => /\ ctx[c].log[i].path = ctx[c].remote.parts
                       /\ ctx[c].log[j].path = StagePath(ctx[c].remote).parts)
    /\ \A c \in Callers : InCall(c) ~> CallEnded(c)

\* C28 witness: a put whose direct transfer was denied has made its one
\* staged transfer and its one move, which failed, and has ended in failed;
\* the run before it returned.
C28_Witness ==
    \E c \in Callers :
        /\ At(c, "put", "failed") /\ ctx[c].exc = "RuntimeError"
        /\ Count(ctx[c], "sftp.put") = 2
        /\ Count(ctx[c], "sudo mv {a} {b}") = 1
        /\ rs[1].pc = "returned" /\ rs[1].channels = 1


\* the steps of get's fallback (lines 383-401), as the log records them
FallbackSteps(x) ==
    LET t == StagePath(x.remote).parts
    IN  << [op |-> "sudo cp {a} /tmp", path |-> x.remote.parts],
           [op |-> "whoami", path |-> <<>>],
           [op |-> "sudo [ -f {a} ] && sudo chown {u}:{u} {a}", path |-> t],
           [op |-> "sftp.get", path |-> t],
           [op |-> "sftp.remove", path |-> t] >>

FallbackOps == {"sudo cp {a} /tmp", "whoami", "sudo [ -f {a} ] && sudo chown {u}:{u} {a}",
                "sftp.get", "sftp.remove"}

\* what a get has issued from its direct fetch on, less the reading of the
\* mode that follows the transfer
SinceFetch(x) ==
    LET first == CHOOSE i \in DOMAIN x.log :
                    /\ x.log[i].op = "sftp.get"
                    /\ \A j \in 1..(i - 1) : x.log[j].op # "sftp.get"
    IN  SelectSeq(SubSeq(x.log, first + 1, Len(x.log)), LAMBDA e : e.op \in FallbackOps)

\* the command get is about to run in its fallback
FallbackCmd(x) ==
    CASE x.pc = "g_cp" -> CmdCp(x.remote)
      [] x.pc = "g_whoami" -> CmdWhoami
      [] x.pc = "g_chown" -> CmdChown(x.username, StagePath(x.remote))

StagedThenMoved(x, i) ==
    LET t == StagePath(x.remote).parts
    IN  /\ i + 2 <= Len(x.log)
        /\ x.log[i] = [op |-> "sftp.put", path |-> x.remote.parts]
        /\ x.log[i + 1] = [op |-> "sftp.put", path |-> t]
        /\ x.log[i + 2] = [op |-> "sudo mv {a} {b}", path |-> t]

\* C30: a put issues `sudo mv` at most once, and only right after the
\* transfer to the staging path that follows the denied direct transfer; a
\* move that exits non-zero ends the put in failed RuntimeError at that
\* step, and a put that ended there has issued no chmod, direct or elevated.
C30_StageThenMove ==
    /\ [](\A c \in Callers :
            ctx[c].op = "put" =>
                /\ Count(ctx[c], "sudo mv {a} {b}") <= 1
                /\ "sudo mv {a} {b}" \in Ops(ctx[c]) =>
                        \E i \in DOMAIN ctx[c].log : StagedThenMoved(ctx[c], i)
                /\ (/\ ctx[c].pc = "failed" /\ ctx[c].log # <<>>
                    /\ Last(ctx[c].log).op = "sudo mv {a} {b}")
                   => /\ ctx[c].exc = "RuntimeError"
                      /\ Ops(ctx[c]) \cap ModeOps = {})
    /\ [][\A c \in Callers :
            (/\ At(c, "put", "p_move") /\ ctx'[c] # ctx[c]
             /\ RunRemote(rfs, sudoOk,
                           CmdMv(StagePath(ctx[c].remote), ctx[c].remote)).code # 0)
            => /\ ctx'[c].pc = "failed" /\ ctx'[c].exc = "RuntimeError"
               /\ rfs' = rfs]_vars

\* C30 witness: a put with preserve_mode staged the file, its move exited
\* non-zero, and the put failed there without a chmod.
C30_Witness ==
    \E c \in Callers :
        /\ At(c, "put", "failed") /\ ctx[c].exc = "RuntimeError"
        /\ ctx[c].preserve
        /\ Count(ctx[c], "sftp.put") = 2
        /\ Last(ctx[c].log).op = "sudo mv {a} {b}"
        /\ StagePath(ctx[c].remote).parts \in DOMAIN rfs

\* the path the claim names for a put: below the remote argument when that
\* is a directory on the host, the remote argument itself when it is not
NamedTarget(x) ==
    IF IsDirAsRoot(rfs, x.arg_remote.parts)
    THEN Join(x.arg_remote, Basename(x.local))
    ELSE x.arg_remote

\* C31: a put that returned has left the bytes it sent in a file at
\* remote_path/basename(local_path) when remote_path is a directory, and at
\* remote_path otherwise.
C31_WrittenToNamedTarget ==
    \A c \in Callers :
        At(c, "put", "done") =>
            LET t == NamedTarget(ctx[c]).parts
            IN  /\ t \in DOMAIN rfs
                /\ rfs[t].kind = "file"
                /\ rfs[t].content = ctx[c].sent

\* what the elevated probe `sudo [ -d p ]` shows for path p on this host
ElevatedSaysDir(p) == sudoOk /\ p.abs /\ IsDirAsRoot(rfs, p.parts)

\* the operations of a put that write on the remote host
PutWrites == {"sftp.put", "sudo mv {a} {b}"}

\* C32: put probes the parent with sudo only after a denied direct probe
\* with sudo=True and an elevated probe that did not show a directory; from
\* there it goes on exactly when the elevated probe shows the parent to be a
\* directory, and otherwise fails with AssertionError; a put that failed so
\* has issued no transfer, no staging and no move.
C32_ParentAssertedUnderSudo ==
    /\ [](\A c \in Callers :
            /\ At(c, "put", "p_sudo_parent") =>
                  /\ ctx[c].sudo
                  /\ ctx[c].remote = ctx[c].arg_remote
                  /\ SftpStat(rfs, ctx[c].remote.parts).exc = "PermissionError"
                  /\ ~ElevatedSaysDir(ctx[c].remote)
            /\ (At(c, "put", "failed") /\ ctx[c].exc = "AssertionError") =>
                  /\ Ops(ctx[c]) \cap PutWrites = {}
                  /\ ~ElevatedSaysDir(Dirname(ctx[c].remote)))
    /\ [][\A c \in Callers :
            (At(c, "put", "p_sudo_parent") /\ ctx'[c] # ctx[c]) =>
                /\ rfs' = rfs
                /\ IF ElevatedSaysDir(Dirname(ctx[c].remote))
                   THEN ctx'[c].pc = "p_exists" /\ ctx'[c].remote = ctx[c].remote
                   ELSE ctx'[c].pc = "failed" /\ ctx'[c].exc = "AssertionError"]_vars

\* C32 witness: on a host that grants sudo, a put whose parent probe did not
\* show a directory failed with AssertionError before any transfer.
C32_Witness ==
    \E c \in Callers :
        /\ At(c, "put", "failed") /\ ctx[c].exc = "AssertionError"
        /\ sudoOk
        /\ Count(ctx[c], "sudo [ -d {a} ]") = 2
        /\ Last(ctx[c].log).path = Dirname(ctx[c].arg_remote).parts

\* the local argument of a get, trailing separators aside, names nothing on
\* the caller's machine
LocalMissing(x) ==
    /\ ~IsEmptyStr(x.arg_local)
    /\ OsStat(lfs, StripSep(Abspath(x.arg_local))) # "ok"

\* the parent of the local argument, trailing separators stripped, is a directory
LocalParentIsDir(x) ==
    LET d == Dirname(StripSep(Abspath(x.arg_local))).parts
    IN  Lookup(lfs, d, TRUE) = "ok" /\ lfs[d].kind = "dir"

GetTransfers == {"sftp.get", "sudo cp {a} /tmp"}

\* C33: the validation of a local path that does not exist lets get go on to
\* the transfer exactly when the parent of the path (trailing separators
\* stripped) is an existing directory, and otherwise ends the get with
\* FileNotFoundError or NotADirectoryError, nothing fetched and no local
\* file touched; no get is ever at or past the transfer without that parent.
C33_MissingLocalNeedsParent ==
    /\ [](\A c \in Callers :
            (ctx[c].op = "get" /\ (GetTransfers \cap Ops(ctx[c]) # {}
                                   \/ ctx[c].pc = "g_transfer"))
            => LocalParentIsDir(ctx[c]))
    /\ [][\A c \in Callers :
            (At(c, "get", "g_local") /\ ctx'[c] # ctx[c] /\ LocalMissing(ctx[c]))
            => /\ lfs' = lfs /\ rfs' = rfs
               /\ ctx'[c].log = ctx[c].log
               /\ IF LocalParentIsDir(ctx[c])
                  THEN ctx'[c].pc = "g_transfer"
                  ELSE /\ ctx'[c].pc = "failed"
                       /\ ctx'[c].exc \in {"FileNotFoundError", "NotADirectoryError"}]_vars

\* C33 witness: a get into "/home/nx/g/", whose parent is missing, failed
\* with FileNotFoundError after the probe of the source and before a fetch.
C33_Witness ==
    \E c \in Callers :
        /\ At(c, "get", "failed") /\ ctx[c].exc = "FileNotFoundError"
        /\ ctx[c].arg_local = Path(TRUE, <<"home", "nx", "g", "">>)
        /\ "sftp.stat" \in Ops(ctx[c])
        /\ GetTransfers \cap Ops(ctx[c]) = {}
        /\ lfs = BaseLocal

\* no call of run is between its entry and its exit
NoRunInFlight == \A r \in Runners : rs[r].pc \in {"idle", "returned", "raised"}

\* s is an initial part of all
InitialPart(s, all) == Len(s) <= Len(all) /\ s = SubSeq(all, 1, Len(s))

\* C34: with runs called one after the other on one session, the two
\* buffers are empty whenever no run is in flight, whether the last run
\* returned or raised, and what a run returns is made of the bytes of its own
\* command only (an initial part of them, on each stream).
C34_BuffersEmptyBetweenRuns ==
    /\ NoRunInFlight => (stdout_chunks = <<>> /\ stderr_chunks = <<>>)
    /\ \A r \in Runners :
          Returned(r) => /\ InitialPart(rs[r].ret.out, Decode(rem[r].outAll))
                         /\ InitialPart(rs[r].ret.err, Decode(rem[r].errAll))

\* C34 witness: the first run had read its byte of output when an error
\* inside the try statement ended it; the second run, of a command that
\* prints nothing, has then returned empty texts.
C34_Witness ==
    /\ rs[1].pc = "raised" /\ rs[1].err = "io"
    /\ rem[1].outSent = 1 /\ ch[1].in_buffer = <<>>
    /\ rs[2].cmd = <<"quiet">> /\ Returned(2)
    /\ rs[2].ret.out = <<>> /\ rs[2].ret.err = <<>>
    /\ stdout_chunks = <<>>

\* the mode and the owner the local file of a get has once it is written:
\* those it had before the call, or those of a new file
WrittenLocal(p) ==
    IF p \in DOMAIN BaseLocal
    THEN [mode |-> BaseLocal[p].mode, owner |-> BaseLocal[p].owner]
    ELSE [mode |-> NewLocalMode, owner |-> "me"]

\* the last remote operation of the call was the elevated stat
EndedAtSudoStat(x) ==
    x.pc = "failed" /\ x.log # <<>> /\ Last(x.log).op = "sudo stat {a}"

\* C35: the elevated stat of get either yields the remote file's mode, and
\* get goes on to apply it, or ends the get: with RuntimeError (non-zero
\* exit) or ValueError (no mode matched).  That step leaves the local files
\* alone, and a get that ended there has left the local file with the mode
\* and owner it had when it was written.
C35_UnreadableModeIsFatal ==
    /\ [](\A c \in Callers :
            (ctx[c].op = "get" /\ EndedAtSudoStat(ctx[c])) =>
                /\ ctx[c].exc \in {"RuntimeError", "ValueError"}
                /\ lfs[ctx[c].local.parts].mode = WrittenLocal(ctx[c].local.parts).mode
                /\ lfs[ctx[c].local.parts].owner = WrittenLocal(ctx[c].local.parts).owner)
    /\ [][\A c \in Callers :
            (At(c, "get", "g_mode_sudo") /\ ctx'[c] # ctx[c]) =>
                /\ lfs' = lfs
                /\ \/ /\ ctx'[c].pc = "g_chmod"
                      /\ ctx'[c].mode = rfs[ctx[c].remote.parts].mode
                   \/ /\ ctx'[c].pc = "failed"
                      /\ ctx'[c].exc \in {"RuntimeError", "ValueError"}]_vars

\* C35 witness: the report of `sudo stat` had no mode to match; the get
\* failed with ValueError and its local file, fetched through the staging
\* path, still has the mode of a new file.
C35_Witness ==
    \E c \in Callers :
        /\ ctx[c].op = "get" /\ EndedAtSudoStat(ctx[c])
        /\ ctx[c].exc = "ValueError"
        /\ ctx[c].local = Path(TRUE, <<"home", "g">>)
        /\ lfs[<<"home", "g">>].content = 2
        /\ lfs[<<"home", "g">>].mode = NewLocalMode

\* the call has placed a file at its staging path: put by the second
\* sftp.put (the move was then issued), get by `sudo cp` (whoami was then
\* issued)
HasStaged(x) ==
    \/ x.op = "put" /\ "sudo mv {a} {b}" \in Ops(x)
    \/ x.op = "get" /\ "whoami" \in Ops(x)

\* C36: a put or get that failed after it had staged a file has left nothing
\* at its staging path.
C36_FailureLeavesNoStagedFile ==
    \A c \in Callers :
        (ctx[c].pc = "failed" /\ HasStaged(ctx[c]))
        => StagePath(ctx[c].remote).parts \notin DOMAIN rfs

\* C37: no step of a get changes the file at its remote path: while a get is
\* under way or has ended, a file that is at remote_path stays there with
\* the same content, owner and mode, also when remote_path is /tmp/<name>,
\* the path the fallback stages at.
C37_GetLeavesSourceAlone ==
    [][\A c \in Callers :
         (ctx[c].op = "get" /\ ctx[c].remote.abs
          /\ ctx[c].remote.parts \in DOMAIN rfs)
         => /\ ctx[c].remote.parts \in DOMAIN rfs'
            /\ rfs'[ctx[c].remote.parts] = rfs[ctx[c].remote.parts]]_vars

\* C37 witness: a get of /tmp/f, which the login user cannot read, went to
\* the fallback; its copy onto itself failed, the get ended with
\* RuntimeError and /tmp/f is as it was.
C37_Witness ==
    \E c \in Callers :
        /\ At(c, "get", "failed") /\ ctx[c].exc = "RuntimeError"
        /\ ctx[c].remote = Path(TRUE, <<"tmp", "f">>)
        /\ StagePath(ctx[c].remote) = ctx[c].remote
        /\ Last(ctx[c].log).op = "sudo cp {a} /tmp"
        /\ sudoOk
        /\ <<"tmp", "f">> \in DOMAIN rfs
        /\ rfs[<<"tmp", "f">>] = FileNode("root", Oct(0, 6, 0, 0), 3)

\* C38: of two concurrent escalated transfers of files with the same name
\* and different remote paths, each one that returns has its own source's
\* content at its own destination: a put the content of its local file at
\* its remote path, a get the content of its remote file at its local path.
C38_NoInterferenceThroughStaging ==
    \A c \in DOMAIN ctx :
        ctx[c].pc = "done" =>
            /\ ctx[c].remote.parts \in DOMAIN rfs
            /\ ctx[c].local.parts \in DOMAIN lfs
            /\ rfs[ctx[c].remote.parts].content = lfs[ctx[c].local.parts].content

\* C39: when run has returned, the mapping the caller passed as
\* `environment` has the entries it had when run was called.
C39_CallerEnvironmentUntouched ==
    \A r \in Runners :
        (Returned(r) /\ rs[r].env.kind = "mapping") => rs[r].caller_env = rs[r].env

\* what a run returns when it has read all its command printed
WholeResult(r) ==
    [set |-> TRUE, code |-> rem[r].code,
     out |-> Decode(rem[r].outAll), err |-> Decode(rem[r].errAll)]

\* the command of run r prints a single byte, on stdout
PrintsOneByte(r) == rs[r].cmd = <<"one">>

\* the runner leaves the multiplexer wait although no channel is ready
LeavesWaitIdle(r) ==
    /\ rs[r].pc = "select" /\ rs'[r].pc = "check"
    /\ Len(ReadyList) = 0

====
